---- MODULE Spec2Model ----
(***************************************************************************)
(* Uptime monitoring engine of the status-page backend:                    *)
(*   src/backend/uptime_service.py  UptimeService (scheduler loop, check   *)
(*                                  recorder, status reconciler)           *)
(*   src/backend/main.py            the API handlers that write the same   *)
(*                                  Service / Incident rows                *)
(* The monitoring loop is one asyncio task.  Every `await` of a store or   *)
(* network call is a suspension point, so each such call is one atomic     *)
(* step of the loop and the API handlers interleave between the steps.     *)
(*                                                                         *)
(* Spec       the loop and the API handlers, with the clock around noon    *)
(*            (no rollup is due)                                           *)
(* AggSpec    calculate_metrics / calculate_period_metrics over check      *)
(*            histories drawn at the start                                 *)
(* ProbeSpec  check_endpoint alone, over every outcome of its request      *)
(* LoopSpec   the loop with its rollups and the uptime read endpoints,     *)
(*            started one minute before a midnight                         *)
(* DriftSpec  the loop with its rollups, with iterations that take long    *)
(* RecoverySpec  the loop over one service whose status was set by hand    *)
(* LiveSpec   the connection manager of the live channel and its clients   *)
(***************************************************************************)
EXTENDS Naturals, Sequences, FiniteSets

\* ------------------------------------------------------------------ bounds
MaxServices  == 2   \* service rows ever created
MaxIncidents == 1   \* incident rows ever created
MaxCycles    == 3   \* iterations of the monitoring loop
MaxApiOps    == 2   \* API requests served

\* ------------------------------------------------------------- value sets
Null == "null"                       \* Python None / SQL NULL
Url  == "http://svc"                 \* a configured endpoint
Ids         == 1..MaxServices
IncidentIds == 1..MaxIncidents

\* the Service.status enum of the data model
ServiceStatuses == {"operational", "degraded", "partial_outage", "major_outage", "maintenance"}
\* Incident.status is a free string; "resolved" is the terminal value
IncidentStatuses == {"investigating", "resolved"}
\* ServiceCreate.endpoint: Optional[str]
EndpointInputs == {Null, "", Url}
ResponseTimes == {120}

VARIABLES
    services,       \* Service rows:  id -> [endpoint, status]   (domain = live rows)
    nextServiceId,  \* ids handed out so far + 1 (ids are never reused)
    incidents,      \* Incident rows: id -> [status, services]   (services: connected ids)
    nextIncidentId,
    checks,         \* UptimeCheck rows, in creation order
    pc,             \* position of the monitoring loop
    cycle,          \* iterations of the loop started so far
    snap,           \* `services` list read by check_all_services (line 30)
    idx,            \* index in snap of the service being processed
    probe,          \* (status, response_time) returned by check_endpoint
    new_status,     \* data of the pending db.service.update
    errors,         \* logger.error at line 72, this cycle: id -> failed call
    obs,            \* history variable: per service, the run of down probes
                    \* since the cycle read it as operational (no code reads it)
    apiOps,         \* history variable: API requests served so far
    metrics,        \* UptimeMetric rows
    now,            \* datetime.now() as calculate_metrics reads it (line 89)
    due,            \* period rollups calculate_metrics has still to run
    rollup,         \* locals of the running calculate_period_metrics call
    caught,         \* logger.error at line 24, this iteration: the failed call
    done,           \* history variable: per period kind, the last rollup that
                    \* returned (its window, the check rows and the metric rows)
    net,            \* what the network did with the prober's request in flight
    requests,       \* GET requests sent by the running check_endpoint call
    sent,           \* the notifications, broadcasts, background tasks and error
                    \* responses issued by the step just taken
    ran,            \* history variable: the calls of calculate_period_metrics made
                    \* so far (iteration, period kind, end of the window)
    active_connections,  \* ConnectionManager.active_connections (main.py 47)
    ws_pc,          \* position of the websocket_endpoint task of each client
    broadcasting    \* the running (or last) call of ConnectionManager.broadcast:
                    \* its list iterator, and as history the clients it has sent
                    \* to and the clients that were listed from its start on

dbVars   == <<services, nextServiceId, incidents, nextIncidentId, checks>>
loopVars == <<pc, cycle, snap, idx, probe, new_status, errors>>
aggVars  == <<metrics, now, due, rollup, caught, done, ran>>
probeVars == <<net, requests>>
liveVars == <<active_connections, ws_pc, broadcasting>>
vars     == <<services, nextServiceId, incidents, nextIncidentId, checks,
              pc, cycle, snap, idx, probe, new_status, errors, obs, apiOps,
              metrics, now, due, rollup, caught, done, net, requests, sent, ran,
              active_connections, ws_pc, broadcasting>>

\* Optional[int]: << >> is None, <<t>> is the integer t
NoRt    == << >>
NoProbe == [up |-> FALSE, rt |-> NoRt]
NoObs   == [phase |-> "none", downs |-> 0, clean |-> TRUE]

\* what the network does with the GET of line 79: a response with a status code
\* after ms milliseconds, or an exception of the HTTP client
StatusCodes == 100..599
Failures == {"timeout", "dns_failure", "connection_error", "other_exception"}
NetOutcomes ==
    {[kind |-> "response", status |-> c, ms |-> t] : c \in StatusCodes, t \in ResponseTimes}
        \cup {[kind |-> f, status |-> 0, ms |-> 0] : f \in Failures}
NoNet == [kind |-> "none", status |-> 0, ms |-> 0]

\* line 83: except Exception
Catches(f) == f \in Failures

\* line 82: return response.status < 400, response_time;  line 85: return False, None
\* variant: the status 400 counts as up
ProbeResult_400isUp(o) ==
    IF o.kind = "response"
    THEN [up |-> o.status <= 400, rt |-> <<o.ms>>]
    ELSE [up |-> FALSE, rt |-> NoRt]
ProbeResult(o) ==
    IF o.kind = "response"
    THEN [up |-> o.status < 400, rt |-> <<o.ms>>]
    ELSE [up |-> FALSE, rt |-> NoRt]

\* outcomes of check_endpoint: a response (< 400 or >= 400) or no response at all
ProbeOutcomes == {ProbeResult(o) : o \in NetOutcomes}

\* notification_service.send_service_status_change_notification(service_id,
\* old_status, new_status)                       (notification_service.py 26-61)
Notify(s, old, new) ==
    [kind |-> "notify", type |-> "service_status_change", id |-> s, old |-> old, new |-> new]
\* the other notifications: send_new_incident_notification(incident_id),
\* send_incident_resolved_notification(incident_id)
NotifyIncident(type, i) ==
    [kind |-> "notify", type |-> type, id |-> i, old |-> Null, new |-> Null]
\* manager.broadcast(json.dumps({"type": type, "data": {"id": id, "status": status}}))
\*                                                              (main.py 56-58)
Broadcast(type, id, status) ==
    [kind |-> "broadcast", type |-> type, id |-> id, old |-> Null, new |-> status]
\* background_tasks.add_task(task, url)                     (main.py 1372-1373)
BackgroundTask(task, s, url) ==
    [kind |-> "background_task", type |-> task, id |-> s, old |-> Null, new |-> url]
\* raise HTTPException(status_code=code)
HttpError(code, s) ==
    [kind |-> "http_error", type |-> code, id |-> s, old |-> Null, new |-> Null]
\* a step that calls none of them
Quiet == sent' = {}

\* the clients of the live channel (one WebSocket object each)
MaxSockets == 3
Sockets == 1..MaxSockets
NoBroadcast == [running |-> FALSE, index |-> 0, delivered |-> {}, stayed |-> {}]
\* no client has connected
NoLive ==
    /\ active_connections = << >>
    /\ ws_pc = [w \in Sockets |-> "new"]
    /\ broadcasting = NoBroadcast

\* Python truthiness of an Optional[str]
Falsy(e) == e \in {Null, ""}

Live == DOMAIN services

\* db.incident.count(where services some id, status not resolved)
ActiveIncidents(s) ==
    Cardinality({i \in DOMAIN incidents :
        s \in incidents[i].services /\ incidents[i].status # "resolved"})

\* ------------------------------------------------------- monitoring loop
Cur == snap[idx]

\* for service in services: if not service.endpoint: continue
\* -> index of the next listed service that is processed, Len+1 when none is left
\* variant: the empty-endpoint guard of line 35 is missing
NextIdx_noSkip(sn, i) == i
RECURSIVE NextIdx(_, _)
NextIdx(sn, i) ==
    IF i > Len(sn) THEN i
    ELSE IF Falsy(sn[i].endpoint) THEN NextIdx(sn, i + 1)
    ELSE i

\* every order in which the store may return the rows of a set of ids
Orders(S) ==
    {q \in [1..Cardinality(S) -> S] : \A i, j \in 1..Cardinality(S) : i # j => q[i] # q[j]}

\* db.service.find_many(where endpoint not None)
FindServices == {s \in Live : services[s].endpoint # Null}

Min(a, b) == IF a < b THEN a ELSE b

\* history only: obs of a service after its processing ended; `up` the probe,
\* `st` the status the cycle read, `noInc` no active incident, `exc` ended by an
\* exception.  phase "down": in a run of down probes that began at operational
\* (downs of them, counted to 2); "up": the first up probe after such a run;
\* clean: no store call raised during the run.
ObsAfter(o, up, st, noInc, exc) ==
    IF ~up
    THEN IF o.phase = "down"
         THEN [phase |-> "down", downs |-> Min(o.downs + 1, 2), clean |-> o.clean /\ ~exc]
         ELSE IF st = "operational" /\ noInc
              THEN [phase |-> "down", downs |-> 1, clean |-> ~exc]
              ELSE NoObs
    ELSE IF o.phase = "down"
         THEN [phase |-> "up", downs |-> o.downs, clean |-> o.clean /\ ~exc]
         ELSE NoObs

\* the loop moves on to the next listed service (or returns from check_all_services)
Advance(exc) ==
    /\ idx' = NextIdx(snap, idx + 1)
    /\ pc' = IF idx' > Len(snap) THEN "calculate_metrics" ELSE "check_endpoint"
    /\ probe' = NoProbe
    /\ new_status' = Null
    /\ obs' = [obs EXCEPT ![Cur.id] =
                 ObsAfter(@, probe.up, Cur.status, ActiveIncidents(Cur.id) = 0, exc)]

\* except Exception as e: logger.error(...)   (lines 71-72)
\* variant: the try/except is around the whole loop, the exception ends it
Raise_abortsCycle(call) ==
    /\ errors' = [errors EXCEPT ![Cur.id] = call]
    /\ idx' = Len(snap) + 1
    /\ pc' = "calculate_metrics"
    /\ probe' = NoProbe
    /\ new_status' = Null
    /\ obs' = [obs EXCEPT ![Cur.id] =
                 ObsAfter(@, probe.up, Cur.status, ActiveIncidents(Cur.id) = 0, TRUE)]
\* variant: only the check write is guarded, the status write follows its failure
Raise_reconcilesAnyway(call) ==
    /\ errors' = [errors EXCEPT ![Cur.id] = call]
    /\ IF call = "create" /\ ~probe.up /\ Cur.status = "operational"
       THEN /\ pc' = "update_status"
            /\ new_status' = "partial_outage"
            /\ UNCHANGED <<idx, probe, obs>>
       ELSE Advance(TRUE)
Raise(call) ==
    /\ errors' = [errors EXCEPT ![Cur.id] = call]
    /\ Advance(TRUE)

\* lines 23-26: except Exception: logger.error(...), then the sleep of line 26
\* variant: the exception is not caught and ends start_monitoring
AfterException_exits == "exited"
AfterException == "sleep"

\* line 30: the service list is read (or the read raises: caught at line 23,
\* calculate_metrics is skipped and the loop sleeps)
check_all_services ==
    /\ pc = "check_all_services"
    /\ cycle < MaxCycles
    /\ cycle' = cycle + 1
    /\ errors' = [s \in Ids |-> "none"]
    /\ probe' = NoProbe
    /\ new_status' = Null
    /\ \/ \E q \in Orders(FindServices) :
            /\ snap' = [i \in 1..Len(q) |->
                          [id |-> q[i], endpoint |-> services[q[i]].endpoint,
                           status |-> services[q[i]].status]]
            /\ idx' = NextIdx(snap', 1)
            /\ pc' = IF idx' > Len(snap') THEN "calculate_metrics" ELSE "check_endpoint"
            /\ caught' = "none"
       \/ /\ snap' = << >>
          /\ idx' = 1
          /\ pc' = AfterException
          /\ caught' = "service.find_many"
    /\ UNCHANGED <<dbVars, obs, apiOps, metrics, now, due, rollup, done, ran, probeVars>>
    /\ Quiet
    /\ UNCHANGED liveVars

\* line 39: status, response_time = await self.check_endpoint(service.endpoint)
check_endpoint ==
    /\ pc = "check_endpoint"
    /\ \E o \in ProbeOutcomes : probe' = o
    /\ pc' = "create_check"
    /\ UNCHANGED <<dbVars, cycle, snap, idx, new_status, errors, obs, apiOps>>
    /\ UNCHANGED <<aggVars, probeVars>>
    /\ Quiet
    /\ UNCHANGED liveVars

\* the row written at lines 42-49
\* variant: a probe that got a response is stored as up
CheckRow_upOnResponse ==
    [service |-> Cur.id,
     status |-> IF probe.rt # NoRt THEN "up" ELSE "down",
     responseTime |-> probe.rt,
     timestamp |-> now]
CheckRow == [service |-> Cur.id,
             status |-> IF probe.up THEN "up" ELSE "down",
             responseTime |-> probe.rt,
             timestamp |-> now]

\* variant: a probe that got no response is not recorded
RecordCheck_dropsFailedProbe(rows, row) ==
    IF row.responseTime = NoRt THEN rows ELSE Append(rows, row)
\* variant: the row replaces the earlier rows of its service
RecordCheck_keepsLatest(rows, row) ==
    LET Other(r) == r.service # row.service IN Append(SelectSeq(rows, Other), row)
\* db.uptimecheck.create(data=...)                              (lines 42-49)
RecordCheck(rows, row) == Append(rows, row)

\* variant: the down transition escalates
DownTarget_escalates == "major_outage"
DownTarget == "partial_outage"    \* line 55
\* variant: the recovery writes the wrong value
UpTarget_keepsOutage == "partial_outage"
UpTarget   == "operational"       \* line 68

\* line 65: if active_incidents == 0
\* variants: the test of the count is inverted / always passes
NoActive_inverted(n) == n # 0
NoActive_unchecked(n) == TRUE
NoActive(n) == n = 0

\* the branch taken at lines 52 / 57 after the check is recorded
\* variants: the recovery is tried from partial_outage only / the down branch
\* is missing / ignores the status read
Decide_onlyFromOutage(up, status) ==
    IF ~up /\ status = "operational" THEN "update_down"
    ELSE IF up /\ status = "partial_outage" THEN "count_incidents"
    ELSE "next"
Decide_missesDown(up, status) ==
    IF up /\ status # "operational" THEN "count_incidents" ELSE "next"
Decide_anyDown(up, status) ==
    IF ~up THEN "update_down"
    ELSE IF up /\ status # "operational" THEN "count_incidents"
    ELSE "next"
Decide(up, status) ==
    IF ~up /\ status = "operational" THEN "update_down"
    ELSE IF up /\ status # "operational" THEN "count_incidents"
    ELSE "next"

\* lines 42-57: record the check, then choose the reconciler's branch
create_check ==
    /\ pc = "create_check"
    /\ \/ /\ Cur.id \in Live                 \* connect needs the service row
          /\ checks' = RecordCheck(checks, CheckRow)
          /\ LET d == Decide(probe.up, Cur.status) IN
               CASE d = "update_down" ->
                        /\ pc' = "update_status"
                        /\ new_status' = DownTarget
                        /\ UNCHANGED <<idx, probe, obs>>
                 [] d = "count_incidents" ->
                        /\ pc' = "count_incidents"
                        /\ UNCHANGED <<idx, probe, new_status, obs>>
                 [] OTHER -> Advance(FALSE)
          /\ UNCHANGED errors
       \/ /\ checks' = checks                \* the create raises
          /\ Raise("create")
    /\ UNCHANGED <<services, nextServiceId, incidents, nextIncidentId, cycle, snap, apiOps>>
    /\ UNCHANGED <<aggVars, probeVars>>
    /\ Quiet
    /\ UNCHANGED liveVars

\* lines 59-65: count the active incidents of the service
count_incidents ==
    /\ pc = "count_incidents"
    /\ \/ /\ NoActive(ActiveIncidents(Cur.id))
          /\ pc' = "update_status"
          /\ new_status' = UpTarget
          /\ UNCHANGED <<idx, probe, obs, errors>>
       \/ /\ ~NoActive(ActiveIncidents(Cur.id))
          /\ Advance(FALSE)
          /\ UNCHANGED errors
       \/ Raise("count")
    /\ UNCHANGED <<dbVars, cycle, snap, apiOps>>
    /\ UNCHANGED <<aggVars, probeVars>>
    /\ Quiet
    /\ UNCHANGED liveVars

\* variant: the status is read again and a row edited since the cycle's read is
\* left alone
UpdateStatus_ifUnedited(s, st) ==
    IF s \in Live /\ services[s].status = Cur.status
    THEN [services EXCEPT ![s].status = st] ELSE services
\* db.service.update(where id, data status): a row that is gone is not updated
UpdateStatus(s, st) ==
    IF s \in Live THEN [services EXCEPT ![s].status = st] ELSE services

\* lines 53-56 / 66-69: the status write
update_status ==
    /\ pc = "update_status"
    /\ \/ /\ services' = UpdateStatus(Cur.id, new_status)
          /\ Advance(FALSE)
          /\ UNCHANGED errors
       \/ /\ services' = services
          /\ Raise("update")
    /\ UNCHANGED <<nextServiceId, incidents, nextIncidentId, checks, cycle, snap, apiOps>>
    /\ UNCHANGED <<aggVars, probeVars>>
    /\ Quiet
    /\ UNCHANGED liveVars

\* ------------------------------------------------------------- wall clock
\* a datetime: the day (day 0 is Thursday 2024-08-01, the days of the model lie
\* between then and March 2025) and the time of day
DateTime(d, h, m) == [day |-> d, hour |-> h, minute |-> m]
NoDate == DateTime(0, 0, 0)

\* a < b on datetimes
Before(a, b) ==
    \/ a.day < b.day
    \/ a.day = b.day /\ a.hour < b.hour
    \/ a.day = b.day /\ a.hour = b.hour /\ a.minute < b.minute

\* datetime.weekday(): Monday is 0, Sunday is 6
Weekday(t) == (t.day + 3) % 7
\* the days of the months from August 2024 to March 2025
MonthLengths == <<31, 30, 31, 30, 31, 31, 28, 31>>
\* day of the month of the d-th day counted from the first of month k
RECURSIVE DayInMonth(_, _)
DayInMonth(d, k) ==
    IF d < MonthLengths[k] THEN d + 1 ELSE DayInMonth(d - MonthLengths[k], k + 1)
\* datetime.day
DayOfMonth(t) == DayInMonth(t.day, 1)
\* t - datetime.timedelta(days=n)
MinusDays(t, n) == [t EXCEPT !.day = @ - n]
\* t.replace(hour=0, minute=0, second=0, microsecond=0)
Midnight(t) == DateTime(t.day, 0, 0)
\* the minutes from day 0, 00:00 to t, and the datetime at that many minutes
Minutes(t) == (t.day * 24 + t.hour) * 60 + t.minute
AtMinutes(n) == DateTime(n \div (24 * 60), (n \div 60) % 24, n % 60)

check_interval == 60     \* seconds between checks (line 14)

\* now.hour == 0 and now.minute < self.check_interval // 60
\* variants: the gate stays open for the whole hour / for a second interval
AtBoundary_wholeHour(t) == t.hour = 0
AtBoundary_twoIntervals(t) == t.hour = 0 /\ t.minute < 2 * (check_interval \div 60)
AtBoundary(t) == t.hour = 0 /\ t.minute < check_interval \div 60

\* variant: every month is taken to have 30 days
DaysInLastMonth_thirty(t) == 30
\* lines 102-103: last_month = now.replace(day=1) - timedelta(days=1); last_month.day
DaysInLastMonth(t) == DayOfMonth(MinusDays(t, DayOfMonth(t)))

PeriodKinds == {"daily", "weekly", "monthly"}

\* lines 92-104: the calls of calculate_period_metrics(period, days) that are
\* due at clock reading t, in the order they are made
DuePeriods(t) ==
    (IF AtBoundary(t) THEN <<[period |-> "daily", days |-> 1]>> ELSE << >>)
    \o (IF Weekday(t) = 6 /\ AtBoundary(t)
        THEN <<[period |-> "weekly", days |-> 7]>> ELSE << >>)
    \o (IF DayOfMonth(t) = 1 /\ AtBoundary(t)
        THEN <<[period |-> "monthly", days |-> DaysInLastMonth(t)]>> ELSE << >>)

\* --------------------------------------------------- the metric arithmetic
RECURSIVE GCD(_, _)
GCD(a, b) == IF b = 0 THEN a ELSE GCD(b, a % b)

\* The float uptime_percentage is kept as the fraction it approximates, in
\* lowest terms <<numerator, denominator>> (the two roundings of line 133 are
\* below 1e-13 and nothing truncates the value afterwards).
Frac(a, b) == <<a \div GCD(a, b), b \div GCD(a, b)>>

\* line 133: (up_checks / total_checks) * 100 if total_checks > 0 else 0
UptimePercentage(up, total) ==
    IF total > 0
    THEN LET r == Frac(up, total) IN Frac(r[1] * 100, r[2])
    ELSE <<0, 1>>

RECURSIVE SumSeq(_)
SumSeq(q) == IF q = << >> THEN 0 ELSE Head(q)[1] + SumSeq(Tail(q))

\* line 136: [check.responseTime for check in checks if check.responseTime is not None]
\* variant: only the checks that are up are averaged
ResponseTimesOf_upOnly(rows) ==
    LET Has(r) == r.status = "up" /\ r.responseTime # NoRt
        picked == SelectSeq(rows, Has)
    IN  [k \in 1..Len(picked) |-> picked[k].responseTime]
ResponseTimesOf(rows) ==
    LET Has(r) == r.responseTime # NoRt
        picked == SelectSeq(rows, Has)
    IN  [k \in 1..Len(picked) |-> picked[k].responseTime]

\* line 137: sum(response_times) // len(response_times) if response_times else None
AvgResponseTime(rts) ==
    IF rts # << >> THEN <<SumSeq(rts) \div Len(rts)>> ELSE NoRt

\* Lines 141-142 are IEEE-754 double arithmetic:
\*     minutes_per_check = (days * 24 * 60) / total_checks
\*     downtime_minutes  = int((total_checks - up_checks) * minutes_per_check)
\* With M = days*24*60, N = total_checks, D = N - up_checks: the quotient is the
\* double nearest to M/N, the product the double nearest to D times it, and
\* int() truncates.  When N does not divide D*M the product is far from an
\* integer and the result is floor(D*M/N).  When D*M/N is an integer k, the
\* result is k unless the quotient was rounded down and D times that error
\* exceeds half the gap between k and the double below it: then it is k - 1.
\* A window of d days holds at most one check a minute, so N <= M.
MantissaBits == 52

RECURSIVE Pow2(_)
Pow2(n) == IF n = 0 THEN 1 ELSE 2 * Pow2(n - 1)

\* binary exponent of a/b: the largest e with 2^e * b <= a, for a >= b >= 1
RECURSIVE Exponent(_, _)
Exponent(a, b) == IF 2 * b <= a THEN 1 + Exponent(a, 2 * b) ELSE 0

\* 2^s mod n
RECURSIVE PowMod2(_, _)
PowMod2(s, n) == IF s = 0 THEN 1 % n ELSE (2 * PowMod2(s - 1, n)) % n

\* remainder of the mantissa division M * 2^s / N, s = 52 - Exponent(M, N):
\* 0 when M/N is a double, at most N/2 when the quotient is rounded down
DivRemainder(M, N) == ((M % N) * PowMod2(MantissaBits - Exponent(M, N), N)) % N

\* lines 141-142
\* variant: the checks that are up are counted as downtime
DowntimeMinutes_countsUp(days, total, up) ==
    IF total = 0 THEN 0 ELSE (up * (days * 24 * 60)) \div total
DowntimeMinutes(days, total, up) ==
    LET M    == days * 24 * 60
        D    == total - up
        k    == (D * M) \div total
        R    == DivRemainder(M, total)
        ek   == Exponent(k, 1)
        gap  == IF Pow2(ek) = k THEN 4 ELSE 2
    IN  IF total = 0 THEN 0
        ELSE IF D = 0 \/ (D * M) % total # 0 THEN k
        ELSE IF R = 0 \/ 2 * R > total THEN k
        ELSE IF D * R * gap > total * Pow2(ek - Exponent(M, total)) THEN k - 1
        ELSE k

\* lines 131-142: the fields of the metric, from the rows fetched for the window
Computed(rows, days) ==
    LET IsUp(r) == r.status = "up"
        total_checks == Len(rows)
        up_checks == Len(SelectSeq(rows, IsUp))
    IN  [uptime          |-> UptimePercentage(up_checks, total_checks),
         avgResponseTime |-> AvgResponseTime(ResponseTimesOf(rows)),
         checksCount     |-> total_checks,
         downtimeMinutes |-> DowntimeMinutes(days, total_checks, up_checks)]
NoData == [uptime |-> <<0, 1>>, avgResponseTime |-> NoRt,
           checksCount |-> 0, downtimeMinutes |-> 0]

\* lines 120-123: "timestamp": {"gte": start_date, "lt": end_date}
\* variant: the end of the window is included
InWindow_endInclusive(t, start, end) == ~Before(t, start) /\ ~Before(end, t)
InWindow(t, start, end) == ~Before(t, start) /\ Before(t, end)

\* lines 117-125: db.uptimecheck.find_many(where service_id, timestamp)
FindChecks(s, start, end) ==
    LET Keep(r) == r.service = s /\ InWindow(r.timestamp, start, end)
    IN  SelectSeq(checks, Keep)

\* the where clause of lines 146-151
SameKey(m, s, p, start, end) ==
    m.service = s /\ m.period = p /\ m.startDate = start /\ m.endDate = end

\* the metric rows of one period kind and window
WindowRows(ms, p, start, end) ==
    {m \in ms : m.period = p /\ m.startDate = start /\ m.endDate = end}

\* the id the store gives the next UptimeMetric row
NextMetricId(ms) ==
    IF ms = {} THEN 1
    ELSE 1 + (CHOOSE n \in {m.id : m \in ms} : \A m \in ms : m.id <= n)

\* ------------------------------------------------- periodic aggregator
NoRollup == [period |-> Null, days |-> 0, start_date |-> NoDate, end_date |-> NoDate,
             services |-> << >>, idx |-> 1, data |-> NoData, existing_metric |-> 0]
NoDone == [ran |-> FALSE, start |-> NoDate, end |-> NoDate, checks |-> << >>, rows |-> {}]

\* the service of the running rollup's loop (line 115)
CurM == rollup.services[rollup.idx]

\* line 22: check_all_services has returned (its locals are gone);
\* lines 89-104: the boundary check decides which rollups run in this iteration
calculate_metrics ==
    /\ pc = "calculate_metrics"
    /\ due' = DuePeriods(now)
    /\ pc' = IF due' = << >> THEN "sleep" ELSE "period_find_services"
    /\ snap' = << >>
    /\ idx' = 1
    /\ errors' = [s \in Ids |-> "none"]
    /\ UNCHANGED <<dbVars, cycle, probe, new_status, obs, apiOps,
                   metrics, now, rollup, caught, done, ran, probeVars>>
    /\ Quiet
    /\ UNCHANGED liveVars

\* an exception of a store call leaves calculate_period_metrics and
\* calculate_metrics and is caught in start_monitoring (lines 23-24)
\* variant: the exception is caught around the rollup, the next one that is due
\* runs
RaiseMetrics_nextPeriod(call) ==
    /\ caught' = call
    /\ due' = Tail(due)
    /\ rollup' = NoRollup
    /\ pc' = IF due' = << >> THEN AfterException ELSE "period_find_services"
    /\ UNCHANGED done
RaiseMetrics(call) ==
    /\ caught' = call
    /\ due' = << >>
    /\ rollup' = NoRollup
    /\ pc' = AfterException
    /\ UNCHANGED done

\* calculate_period_metrics returns: the next rollup that is due runs, or
\* calculate_metrics returns.  r: the locals of the call, ms: the metric rows
ReturnPeriod(r, ms) ==
    /\ due' = Tail(due)
    /\ pc' = IF due' = << >> THEN "sleep" ELSE "period_find_services"
    /\ rollup' = NoRollup
    /\ done' = [done EXCEPT ![r.period] =
                  [ran |-> TRUE, start |-> r.start_date, end |-> r.end_date,
                   checks |-> checks,
                   rows |-> WindowRows(ms, r.period, r.start_date, r.end_date)]]

\* line 115: the loop moves on to the next listed service
NextService(ms) ==
    IF rollup.idx + 1 > Len(rollup.services)
    THEN ReturnPeriod(rollup, ms)
    ELSE /\ rollup' = [rollup EXCEPT !.idx = @ + 1, !.data = NoData,
                                     !.existing_metric = 0]
         /\ pc' = "period_find_checks"
         /\ UNCHANGED <<due, done>>

\* lines 108-113: the window, and the list of services with an endpoint
period_find_services ==
    /\ pc = "period_find_services"
    /\ \/ /\ \E q \in Orders(FindServices) :
               LET r == [period |-> Head(due).period,
                         days |-> Head(due).days,
                         start_date |-> MinusDays(Midnight(now), Head(due).days),
                         end_date |-> Midnight(now),
                         services |-> q, idx |-> 1, data |-> NoData,
                         existing_metric |-> 0]
               IN  IF q = << >>
                   THEN ReturnPeriod(r, metrics)
                   ELSE /\ rollup' = r
                        /\ pc' = "period_find_checks"
                        /\ UNCHANGED <<due, done>>
          /\ UNCHANGED caught
       \/ RaiseMetrics("service.find_many")
    /\ ran' = ran \cup {[cycle |-> cycle, period |-> Head(due).period,
                          end_date |-> Midnight(now)]}
    /\ UNCHANGED <<dbVars, cycle, snap, idx, probe, new_status, errors, obs, apiOps,
                   metrics, now, probeVars>>
    /\ Quiet
    /\ UNCHANGED liveVars

\* line 127: if not checks
\* variant: a service without checks is not skipped
Skips_never(rows) == FALSE
Skips(rows) == rows = << >>

\* lines 117-142: the checks of the window are fetched; none: the service is
\* skipped (lines 127-128), else the fields are computed
period_find_checks ==
    /\ pc = "period_find_checks"
    /\ \/ /\ LET rows == FindChecks(CurM, rollup.start_date, rollup.end_date)
             IN  IF Skips(rows)
                 THEN NextService(metrics)
                 ELSE /\ rollup' = [rollup EXCEPT !.data = Computed(rows, rollup.days)]
                      /\ pc' = "period_find_metric"
                      /\ UNCHANGED <<due, done>>
          /\ UNCHANGED caught
       \/ RaiseMetrics("uptimecheck.find_many")
    /\ UNCHANGED <<dbVars, cycle, snap, idx, probe, new_status, errors, obs, apiOps,
                   metrics, now, ran, probeVars>>
    /\ Quiet
    /\ UNCHANGED liveVars

\* lines 145-152: db.uptimeMetric.find_first(where service_id, period, dates):
\* one of the rows with the key, or None
period_find_metric ==
    /\ pc = "period_find_metric"
    /\ \/ /\ LET hits == {m \in metrics :
                            SameKey(m, CurM, rollup.period,
                                    rollup.start_date, rollup.end_date)}
             IN  IF hits = {}
                 THEN rollup' = [rollup EXCEPT !.existing_metric = 0]
                 ELSE \E m \in hits : rollup' = [rollup EXCEPT !.existing_metric = m.id]
          /\ pc' = "period_write_metric"
          /\ UNCHANGED <<due, caught, done>>
       \/ RaiseMetrics("uptimeMetric.find_first")
    /\ UNCHANGED <<dbVars, cycle, snap, idx, probe, new_status, errors, obs, apiOps,
                   metrics, now, ran, probeVars>>
    /\ Quiet
    /\ UNCHANGED liveVars

\* lines 155-163: db.uptimeMetric.update(where id, data)
\* variant: the update adds the new count to the stored one
UpdateMetric_accumulates(ms, id, data) ==
    {IF m.id = id
     THEN [m EXCEPT !.uptime = data.uptime,
                    !.avgResponseTime = data.avgResponseTime,
                    !.checksCount = @ + data.checksCount,
                    !.downtimeMinutes = data.downtimeMinutes]
     ELSE m : m \in ms}
UpdateMetric(ms, id, data) ==
    {IF m.id = id
     THEN [m EXCEPT !.uptime = data.uptime,
                    !.avgResponseTime = data.avgResponseTime,
                    !.checksCount = data.checksCount,
                    !.downtimeMinutes = data.downtimeMinutes]
     ELSE m : m \in ms}

\* lines 165-176: db.uptimeMetric.create(data)
\* variant: the row is created without looking at existing_metric
Upsert_alwaysCreates(ms, existing, row) == ms \cup {row}
Upsert(ms, existing, row) ==
    IF existing # 0
    THEN UpdateMetric(ms, existing, row)
    ELSE ms \cup {row}

\* lines 154-176: the metric is updated in place or created
period_write_metric ==
    /\ pc = "period_write_metric"
    /\ \/ /\ IF rollup.existing_metric # 0
             THEN \E m \in metrics : m.id = rollup.existing_metric
             ELSE CurM \in Live                \* connect needs the service row
          /\ metrics' = Upsert(metrics, rollup.existing_metric,
                               [id |-> NextMetricId(metrics),
                                service |-> CurM,
                                period |-> rollup.period,
                                startDate |-> rollup.start_date,
                                endDate |-> rollup.end_date,
                                uptime |-> rollup.data.uptime,
                                avgResponseTime |-> rollup.data.avgResponseTime,
                                checksCount |-> rollup.data.checksCount,
                                downtimeMinutes |-> rollup.data.downtimeMinutes])
          /\ NextService(metrics')
          /\ UNCHANGED caught
       \/ /\ metrics' = metrics
          /\ RaiseMetrics("uptimeMetric.write")
    /\ UNCHANGED <<services, nextServiceId, incidents, nextIncidentId, checks,
                   cycle, snap, idx, probe, new_status, errors, obs, apiOps,
                   now, ran, probeVars>>
    /\ Quiet
    /\ UNCHANGED liveVars

\* the clock reading after asyncio.sleep(self.check_interval) from reading t,
\* the iteration's calls having taken d minutes
\* variant: the loop does not sleep
WakeUp_noSleep(t, d) == AtMinutes(Minutes(t) + d)
WakeUp(t, d) == AtMinutes(Minutes(t) + check_interval \div 60 + d)

\* line 26: await asyncio.sleep(self.check_interval): the clock of the next
\* iteration reads check_interval seconds later
sleep ==
    /\ pc = "sleep"
    /\ pc' = "check_all_services"
    /\ now' = WakeUp(now, 0)
    /\ UNCHANGED <<dbVars, cycle, snap, idx, probe, new_status, errors, obs, apiOps>>
    /\ UNCHANGED <<metrics, due, rollup, caught, done, ran, probeVars>>
    /\ Quiet
    /\ UNCHANGED liveVars

\* ----------------------------------------------------------- API handlers
\* Each handler is one step: the loop's steps interleave with whole requests.
Served == apiOps' = apiOps + 1

Put(f, k, v) == [x \in DOMAIN f \cup {k} |-> IF x = k THEN v ELSE f[x]]
Drop(f, k)   == [x \in DOMAIN f \ {k} |-> f[x]]

ResetObs(S) == [s \in Ids |-> IF s \in S THEN NoObs ELSE obs[s]]

\* POST /services                                          (main.py 540-561)
create_service(e) ==
    /\ apiOps < MaxApiOps
    /\ nextServiceId <= MaxServices
    /\ services' = Put(services, nextServiceId, [endpoint |-> e, status |-> "operational"])
    /\ nextServiceId' = nextServiceId + 1
    /\ Served
    /\ UNCHANGED <<incidents, nextIncidentId, checks, loopVars, obs>>
    /\ UNCHANGED <<aggVars, probeVars>>
    /\ sent' = {Broadcast("service_created", nextServiceId, "operational")}
    /\ UNCHANGED liveVars

\* PUT /services/{id}: fields that are None are left alone  (main.py 576-610)
update_service(s, st, e) ==
    /\ apiOps < MaxApiOps
    /\ s \in Live
    /\ services' = [services EXCEPT ![s] =
                      [endpoint |-> IF e = Null THEN @.endpoint ELSE e,
                       status   |-> IF st = Null THEN @.status ELSE st]]
    /\ obs' = IF st = Null THEN obs ELSE ResetObs({s})
    /\ Served
    /\ UNCHANGED <<nextServiceId, incidents, nextIncidentId, checks, loopVars>>
    /\ UNCHANGED <<aggVars, probeVars>>
    /\ sent' = (IF st # Null /\ st # services[s].status
                 THEN {Notify(s, services[s].status, st)} ELSE {})
               \cup (IF st # Null THEN {Broadcast("service_updated", s, st)} ELSE {})
    /\ UNCHANGED liveVars

\* DELETE /services/{id}: the row goes with its check rows and incident links,
\* or the store refuses while check rows refer to it         (main.py 612-619)
delete_service(s) ==
    /\ apiOps < MaxApiOps
    /\ s \in Live
    /\ \/ /\ services' = Drop(services, s)
          /\ incidents' = [i \in DOMAIN incidents |->
                             [incidents[i] EXCEPT !.services = @ \ {s}]]
          /\ LET Keep(r) == r.service # s IN checks' = SelectSeq(checks, Keep)
          /\ metrics' = {m \in metrics : m.service # s}
          /\ obs' = ResetObs({s})
          /\ sent' = {Broadcast("service_deleted", s, Null)}
       \/ /\ \/ \E k \in 1..Len(checks) : checks[k].service = s
             \/ \E m \in metrics : m.service = s
          /\ UNCHANGED <<services, incidents, checks, metrics, obs>>
          /\ Quiet
    /\ Served
    /\ UNCHANGED <<nextServiceId, nextIncidentId, loopVars>>
    /\ UNCHANGED <<now, due, rollup, caught, done, ran, probeVars>>
    /\ UNCHANGED liveVars

\* the status loop of create_incident / update_incident (main.py 639-645, 724-730)
SetStatuses(ids, st) ==
    [s \in Live |-> IF s \in ids THEN [services[s] EXCEPT !.status = st] ELSE services[s]]

\* POST /incidents                                          (main.py 622-665)
create_incident(st, ids) ==
    /\ apiOps < MaxApiOps
    /\ nextIncidentId <= MaxIncidents
    /\ ids \subseteq Live
    /\ incidents' = Put(incidents, nextIncidentId, [status |-> st, services |-> ids])
    /\ nextIncidentId' = nextIncidentId + 1
    /\ services' = SetStatuses(ids, st)
    /\ obs' = ResetObs(ids)
    /\ Served
    /\ UNCHANGED <<nextServiceId, checks, loopVars>>
    /\ UNCHANGED <<aggVars, probeVars>>
    /\ sent' = {Notify(s, services[s].status, st) : s \in {x \in ids : services[x].status # st}}
               \cup {NotifyIncident("new_incident", nextIncidentId),
                     Broadcast("incident_created", nextIncidentId, st)}
    /\ UNCHANGED liveVars

\* PUT /incidents/{id}: an empty or absent service_ids leaves the links alone
\*                                                           (main.py 691-751)
update_incident(i, st, ids) ==
    /\ apiOps < MaxApiOps
    /\ i \in DOMAIN incidents
    /\ ids \subseteq Live
    /\ incidents' = [incidents EXCEPT ![i] =
                       [status   |-> IF st = Null THEN @.status ELSE st,
                        services |-> IF ids = {} THEN @.services ELSE ids]]
    /\ services' = IF ids # {} /\ st # Null THEN SetStatuses(ids, st) ELSE services
    /\ obs' = ResetObs(incidents[i].services \cup ids)
    /\ Served
    /\ UNCHANGED <<nextServiceId, nextIncidentId, checks, loopVars>>
    /\ UNCHANGED <<aggVars, probeVars>>
    /\ sent' = (IF ids # {} /\ st # Null
                 THEN {Notify(s, services[s].status, st) :
                          s \in {x \in ids : services[x].status # st}}
                 ELSE {})
               \cup (IF st = "resolved" /\ incidents[i].status # "resolved"
                     THEN {NotifyIncident("incident_resolved", i)} ELSE {})
               \cup {Broadcast("incident_updated", i, incidents'[i].status)}
    /\ UNCHANGED liveVars

\* DELETE /incidents/{id}                                   (main.py 753-760)
delete_incident(i) ==
    /\ apiOps < MaxApiOps
    /\ i \in DOMAIN incidents
    /\ incidents' = Drop(incidents, i)
    /\ obs' = ResetObs(incidents[i].services)
    /\ Served
    /\ UNCHANGED <<services, nextServiceId, nextIncidentId, checks, loopVars>>
    /\ UNCHANGED <<aggVars, probeVars>>
    /\ sent' = {Broadcast("incident_deleted", i, Null)}
    /\ UNCHANGED liveVars

\* if not service.endpoint: raise HTTPException(400)        (main.py 1369-1370)
\* variant: only a missing endpoint is refused
Rejects_onlyNone(e) == e = Null
Rejects(e) == Falsy(e)

\* POST /services/{id}/check: the request is refused for a service without an
\* endpoint, else check_endpoint(service.endpoint) is handed to the background
\* tasks and runs beside the loop                         (main.py 1358-1375)
trigger_service_check(s) ==
    /\ apiOps < MaxApiOps
    /\ s \in Live
    /\ sent' = IF Rejects(services[s].endpoint)
               THEN {HttpError("400", s)}
               ELSE {BackgroundTask("check_endpoint", s, services[s].endpoint)}
    /\ Served
    /\ UNCHANGED <<dbVars, loopVars, obs>>
    /\ UNCHANGED <<aggVars, probeVars>>
    /\ UNCHANGED liveVars

\* GET /services/{id}/uptime: the metric rows of the service are read
\*                                                         (main.py 1301-1324)
get_service_uptime(s) ==
    /\ apiOps < MaxApiOps
    /\ s \in Live
    /\ Served
    /\ UNCHANGED <<dbVars, loopVars, obs>>
    /\ UNCHANGED <<aggVars, probeVars>>
    /\ Quiet
    /\ UNCHANGED liveVars

\* GET /services/{id}/uptime/current: the check rows of the last 24 hours are
\* read                                                    (main.py 1326-1356)
get_service_current_uptime(s) ==
    /\ apiOps < MaxApiOps
    /\ s \in Live
    /\ Served
    /\ UNCHANGED <<dbVars, loopVars, obs>>
    /\ UNCHANGED <<aggVars, probeVars>>
    /\ Quiet
    /\ UNCHANGED liveVars

\* GET /services/{id}/metrics/uptime: the check rows of the period are read
\*                                                         (main.py 1416-1460)
get_service_uptime_metrics(s) ==
    /\ apiOps < MaxApiOps
    /\ s \in Live
    /\ Served
    /\ UNCHANGED <<dbVars, loopVars, obs>>
    /\ UNCHANGED <<aggVars, probeVars>>
    /\ Quiet
    /\ UNCHANGED liveVars

\* the state after startup (main.py 75-105): an empty store, the loop about to
\* run its first iteration
Init ==
    /\ services = << >>
    /\ nextServiceId = 1
    /\ incidents = << >>
    /\ nextIncidentId = 1
    /\ checks = << >>
    /\ pc = "check_all_services"
    /\ cycle = 0
    /\ snap = << >>
    /\ idx = 1
    /\ probe = NoProbe
    /\ new_status = Null
    /\ errors = [s \in Ids |-> "none"]
    /\ obs = [s \in Ids |-> NoObs]
    /\ apiOps = 0
    /\ metrics = {}
    /\ now = DateTime(32, 12, 0)      \* noon: no rollup is due in the iterations
    /\ due = << >>
    /\ rollup = NoRollup
    /\ caught = "none"
    /\ done = [p \in PeriodKinds |-> NoDone]
    /\ net = NoNet
    /\ requests = 0
    /\ sent = {}
    /\ ran = {}
    /\ NoLive

Next ==
    \/ check_all_services
    \/ check_endpoint
    \/ create_check
    \/ count_incidents
    \/ update_status
    \/ calculate_metrics
    \/ sleep
    \/ \E e \in EndpointInputs : create_service(e)
    \/ \E s \in Ids, st \in ServiceStatuses \cup {Null}, e \in EndpointInputs :
          update_service(s, st, e)
    \/ \E s \in Ids : delete_service(s)
    \/ \E st \in IncidentStatuses, ids \in SUBSET Ids : create_incident(st, ids)
    \/ \E i \in IncidentIds, st \in IncidentStatuses \cup {Null}, ids \in SUBSET Ids :
          update_incident(i, st, ids)
    \/ \E i \in IncidentIds : delete_incident(i)
    \/ \E s \in Ids : trigger_service_check(s)
    \/ \E s \in Ids : get_service_uptime(s)
    \/ \E s \in Ids : get_service_current_uptime(s)
    \/ \E s \in Ids : get_service_uptime_metrics(s)

Spec == Init /\ [][Next]_vars

\* ====================================================== the prober alone
\* check_endpoint (lines 74-85) step by step, over every outcome of its request
ProbeInit ==
    /\ services = << >>
    /\ nextServiceId = 1
    /\ incidents = << >>
    /\ nextIncidentId = 1
    /\ checks = << >>
    /\ pc = "probe_idle"
    /\ cycle = 0
    /\ snap = << >>
    /\ idx = 1
    /\ probe = NoProbe
    /\ new_status = Null
    /\ errors = [s \in Ids |-> "none"]
    /\ obs = [s \in Ids |-> NoObs]
    /\ apiOps = 0
    /\ metrics = {}
    /\ now = DateTime(32, 12, 0)
    /\ due = << >>
    /\ rollup = NoRollup
    /\ caught = "none"
    /\ done = [p \in PeriodKinds |-> NoDone]
    /\ net = NoNet
    /\ requests = 0
    /\ sent = {}
    /\ ran = {}
    /\ NoLive

\* check_endpoint(url) is called (by the loop, line 39, or by the background
\* task of trigger_service_check)
probe_call ==
    /\ pc \in {"probe_idle", "probe_raised"}
    /\ pc' = "probe_get"
    /\ probe' = NoProbe
    /\ net' = NoNet
    /\ requests' = 0
    /\ UNCHANGED <<dbVars, cycle, snap, idx, new_status, errors, obs, apiOps, aggVars>>
    /\ Quiet
    /\ UNCHANGED liveVars

\* lines 78-79: session.get(url, timeout=10) is sent and answered, or fails
session_get ==
    /\ pc = "probe_get"
    /\ requests' = requests + 1
    /\ \E o \in NetOutcomes : net' = o
    /\ pc' = "probe_return"
    /\ UNCHANGED <<dbVars, cycle, snap, idx, probe, new_status, errors, obs, apiOps, aggVars>>
    /\ Quiet
    /\ UNCHANGED liveVars

\* lines 80-85: the tuple is returned; an exception the except clause does not
\* catch leaves check_endpoint
probe_return ==
    /\ pc = "probe_return"
    /\ IF net.kind = "response" \/ Catches(net.kind)
       THEN /\ probe' = ProbeResult(net)
            /\ pc' = "probe_idle"
       ELSE /\ probe' = NoProbe
            /\ pc' = "probe_raised"
    /\ UNCHANGED <<dbVars, cycle, snap, idx, new_status, errors, obs, apiOps, aggVars,
                   net, requests>>
    /\ Quiet
    /\ UNCHANGED liveVars

ProbeNext == probe_call \/ session_get \/ probe_return

ProbeSpec == ProbeInit /\ [][ProbeNext]_vars

\* ================================================== the aggregator alone
\* calculate_metrics and its rollups over check histories drawn at the start;
\* the clock is sampled at 00:00, 00:01 and 12:00 of Sunday 2024-09-01 (daily,
\* weekly and monthly rollups are due at midnight) and Monday 2024-09-02 (daily)
MaxRows    == 2     \* rows of a drawn check history
MaxRun     == 33    \* rows of a drawn history of one service in one day
MaxRollups == 2     \* calls of calculate_metrics

ClockInputs ==
    {DateTime(d, 0, 0) : d \in {31, 32}}
        \cup {DateTime(d, 0, 1) : d \in {31, 32}}
        \cup {DateTime(d, 12, 0) : d \in {31, 32}}

\* a check row as check_all_services writes it (lines 42-49)
Row(s, o, t) == [service |-> s, status |-> IF o.up THEN "up" ELSE "down",
                 responseTime |-> o.rt, timestamp |-> t]

\* timestamps around the daily window that ends on the day of t: its start, the
\* noon in it, its end
Stamps(t) == {MinusDays(Midnight(t), 1), MinusDays(DateTime(t.day, 12, 0), 1), Midnight(t)}

\* the histories of at most MaxRows rows, written in the order of their timestamps
Histories(t) ==
    LET rows == {Row(s, o, ts) : s \in Ids, o \in ProbeOutcomes, ts \in Stamps(t)}
    IN  UNION {{h \in [1..n -> rows] :
                   \A i \in 1..n, j \in 1..n :
                       i < j => ~Before(h[j].timestamp, h[i].timestamp)} : n \in 0..MaxRows}

\* n checks of service 1 at yesterday's noon, the first u of them up
Run(t, n, u) ==
    [k \in 1..n |->
        Row(1, IF k <= u THEN [up |-> TRUE, rt |-> <<120>>] ELSE [up |-> FALSE, rt |-> NoRt],
            MinusDays(DateTime(t.day, 12, 0), 1))]

\* ten checks of a day, 8 up and 2 down without a response time
TenChecks(t) ==
    LET ms == <<100, 120, 110, 90, 130, 0, 0, 95, 105, 115>>
    IN  [k \in 1..10 |->
            Row(1, IF ms[k] = 0 THEN [up |-> FALSE, rt |-> NoRt]
                   ELSE [up |-> TRUE, rt |-> <<ms[k]>>],
                MinusDays(DateTime(t.day, 12, 0), 1))]

AggInit ==
    /\ \E e \in [Ids -> {Url, Null}] :
          /\ e[1] = Url
          /\ services = [s \in Ids |-> [endpoint |-> e[s], status |-> "operational"]]
    /\ nextServiceId = MaxServices + 1
    /\ incidents = << >>
    /\ nextIncidentId = 1
    /\ \/ \E t \in ClockInputs : now = t /\ checks \in Histories(t)
       \/ /\ now = DateTime(32, 0, 0)
          /\ \/ \E n \in 1..MaxRun, u \in 0..MaxRun : u <= n /\ checks = Run(now, n, u)
             \/ checks = TenChecks(now)
    /\ pc = "calculate_metrics"
    /\ cycle = 1
    /\ snap = << >>
    /\ idx = 1
    /\ probe = NoProbe
    /\ new_status = Null
    /\ errors = [s \in Ids |-> "none"]
    /\ obs = [s \in Ids |-> NoObs]
    /\ apiOps = 0
    /\ metrics = {}
    /\ due = << >>
    /\ rollup = NoRollup
    /\ caught = "none"
    /\ done = [p \in PeriodKinds |-> NoDone]
    /\ net = NoNet
    /\ requests = 0
    /\ sent = {}
    /\ ran = {}
    /\ NoLive

\* lines 19-26 as the aggregator sees them: the iteration ends, and
\* calculate_metrics is called again when the clock reads t, in a later
\* iteration or right after a restart of the process (then t may be the
\* minute of the last call); the check cycle before it may have recorded a row
next_iteration ==
    /\ pc = "sleep"
    /\ cycle < MaxRollups
    /\ cycle' = cycle + 1
    /\ caught' = "none"
    /\ \E t \in ClockInputs :
          /\ ~Before(t, now)
          /\ now' = t
          /\ \/ checks' = checks
             \/ \E s \in FindServices, o \in ProbeOutcomes :
                   /\ ~Falsy(services[s].endpoint)
                   /\ checks' = RecordCheck(checks, Row(s, o, t))
    /\ pc' = "calculate_metrics"
    /\ UNCHANGED <<services, nextServiceId, incidents, nextIncidentId,
                   snap, idx, probe, new_status, errors, obs, apiOps,
                   metrics, due, rollup, done, ran, probeVars>>
    /\ Quiet
    /\ UNCHANGED liveVars

AggNext ==
    \/ calculate_metrics
    \/ period_find_services
    \/ period_find_checks
    \/ period_find_metric
    \/ period_write_metric
    \/ next_iteration

AggSpec == AggInit /\ [][AggNext]_vars

\* ============================================== the loop around midnight
\* start_monitoring from a start of the process one minute before midnight (or
\* noon), with the services already in the store; the days: Saturday
\* 2024-08-31, Sunday 2024-09-01, Saturday 2024-09-07, Monday 2024-09-30 and
\* Friday 2025-02-28
StartClocks ==
    {DateTime(d, 23, 59) : d \in {30, 31, 37, 60, 211}} \cup {DateTime(32, 11, 59)}

LoopInit ==
    /\ \E e \in [Ids -> EndpointInputs] :
          /\ e[1] = Url
          /\ \A s \in Ids \ {1} : e[s] # Url
          /\ services = [s \in Ids |-> [endpoint |-> e[s], status |-> "operational"]]
    /\ nextServiceId = MaxServices + 1
    /\ incidents = << >>
    /\ nextIncidentId = 1
    /\ checks = << >>
    /\ now \in StartClocks
    /\ pc = "check_all_services"
    /\ cycle = 0
    /\ snap = << >>
    /\ idx = 1
    /\ probe = NoProbe
    /\ new_status = Null
    /\ errors = [s \in Ids |-> "none"]
    /\ obs = [s \in Ids |-> NoObs]
    /\ apiOps = 0
    /\ metrics = {}
    /\ due = << >>
    /\ rollup = NoRollup
    /\ caught = "none"
    /\ done = [p \in PeriodKinds |-> NoDone]
    /\ net = NoNet
    /\ requests = 0
    /\ sent = {}
    /\ ran = {}
    /\ NoLive

\* the steps of the monitoring task
LoopSteps ==
    \/ check_all_services
    \/ check_endpoint
    \/ create_check
    \/ count_incidents
    \/ update_status
    \/ calculate_metrics
    \/ period_find_services
    \/ period_find_checks
    \/ period_find_metric
    \/ period_write_metric
    \/ sleep

LoopNext ==
    \/ LoopSteps
    \/ \E s \in Ids : get_service_uptime(s)
    \/ \E s \in Ids : get_service_current_uptime(s)
    \/ \E s \in Ids : get_service_uptime_metrics(s)

\* The event loop resumes the task when the call it awaits has returned or
\* raised: a step of the task that can be taken is taken.
LoopSpec == LoopInit /\ [][LoopNext]_vars /\ WF_vars(LoopSteps)

\* ================================================ the loop with long cycles
\* The work of an iteration takes time (a probe up to its 10 s timeout, a store
\* call as long as the store takes) and asyncio.sleep sleeps at least
\* check_interval seconds: the clock reading of the next iteration is at
\* least check_interval later, and up to MaxDrift minutes more.
MaxDrift == 1

\* line 26 after an iteration whose calls took long
late_wakeup ==
    /\ pc = "sleep"
    /\ pc' = "check_all_services"
    /\ \E d \in 1..MaxDrift : now' = WakeUp(now, d)
    /\ UNCHANGED <<dbVars, cycle, snap, idx, probe, new_status, errors, obs, apiOps>>
    /\ UNCHANGED <<metrics, due, rollup, caught, done, ran, probeVars>>
    /\ Quiet
    /\ UNCHANGED liveVars

DriftNext == LoopSteps \/ late_wakeup

DriftSpec == LoopInit /\ [][DriftNext]_vars

\* ============================================ the loop after hand edits
\* start_monitoring with one monitored service whose status requests have set
\* to any value a handler can store: a value of the enum by update_service,
\* the status of an incident by create_incident / update_incident (main.py
\* 639-645, 724-730); the incident, if any, active or resolved
RecoveryInit ==
    /\ \E st \in ServiceStatuses \cup IncidentStatuses :
          services = [s \in {1} |-> [endpoint |-> Url, status |-> st]]
    /\ nextServiceId = MaxServices + 1
    /\ \/ /\ incidents = << >>
          /\ nextIncidentId = 1
          /\ services[1].status \in ServiceStatuses
       \/ /\ \E st \in IncidentStatuses :
                incidents = [i \in {1} |-> [status |-> st, services |-> {1}]]
          /\ nextIncidentId = 2
    /\ checks = << >>
    /\ pc = "check_all_services"
    /\ cycle = 0
    /\ snap = << >>
    /\ idx = 1
    /\ probe = NoProbe
    /\ new_status = Null
    /\ errors = [s \in Ids |-> "none"]
    /\ obs = [s \in Ids |-> NoObs]
    /\ apiOps = 0
    /\ metrics = {}
    /\ now = DateTime(32, 12, 0)
    /\ due = << >>
    /\ rollup = NoRollup
    /\ caught = "none"
    /\ done = [p \in PeriodKinds |-> NoDone]
    /\ net = NoNet
    /\ requests = 0
    /\ sent = {}
    /\ ran = {}
    /\ NoLive

\* the steps of the monitoring task while no rollup is due
CycleSteps ==
    \/ check_all_services
    \/ check_endpoint
    \/ create_check
    \/ count_incidents
    \/ update_status
    \/ calculate_metrics
    \/ sleep

\* the requests: a status edit of the service, a new incident on it, a status
\* edit of its incident
HandEdits == {"maintenance", "major_outage"}

RecoveryNext ==
    \/ CycleSteps
    \/ \E st \in HandEdits : update_service(1, st, Null)
    \/ \E st \in IncidentStatuses : create_incident(st, {1})
    \/ \E i \in IncidentIds, st \in IncidentStatuses : update_incident(i, st, {})

\* the event loop resumes the task when the call it awaits has returned or
\* raised; requests come when they come
RecoverySpec == RecoveryInit /\ [][RecoveryNext]_vars /\ WF_vars(CycleSteps)

\* ======================================================= the live channel
\* ConnectionManager (main.py 45-58) and the websocket_endpoint tasks that
\* use it (main.py 834-842).  Every await is a suspension point: the tasks of
\* the clients run between two send_text calls of a broadcast.
coreVars == <<dbVars, loopVars, obs, apiOps, aggVars, probeVars, sent>>

\* list.remove(x): the first occurrence goes, the later elements move up
ListRemove(q, x) ==
    LET i == CHOOSE k \in 1..Len(q) : q[k] = x /\ \A j \in 1..(k - 1) : q[j] # x
    IN  SubSeq(q, 1, i - 1) \o SubSeq(q, i + 1, Len(q))

\* the elements of a list
Elements(q) == {q[k] : k \in 1..Len(q)}

\* manager.connect(websocket): accept, then append        (main.py 49-51, 836)
connect(w) ==
    /\ ws_pc[w] = "new"
    /\ ws_pc' = [ws_pc EXCEPT ![w] = "connected"]
    /\ active_connections' = Append(active_connections, w)
    /\ UNCHANGED <<broadcasting, coreVars>>

\* except WebSocketDisconnect: manager.disconnect(websocket)
\*                                                      (main.py 53-54, 841-842)
disconnect(w) ==
    /\ ws_pc[w] = "connected"
    /\ ws_pc' = [ws_pc EXCEPT ![w] = "closed"]
    /\ active_connections' = ListRemove(active_connections, w)
    /\ broadcasting' = [broadcasting EXCEPT !.stayed = @ \ {w}]
    /\ UNCHANGED coreVars

\* manager.broadcast(message) is called: the for loop of line 57 takes an
\* iterator of the list (a position in it, from 0)
broadcast ==
    /\ ~broadcasting.running
    /\ broadcasting' = [running |-> TRUE, index |-> 0, delivered |-> {},
                        stayed |-> Elements(active_connections)]
    /\ UNCHANGED <<active_connections, ws_pc, coreVars>>

\* lines 57-58: the iterator yields the element at its position and moves on;
\* await connection.send_text(message)
send_text ==
    /\ broadcasting.running
    /\ broadcasting.index < Len(active_connections)
    /\ broadcasting' = [broadcasting EXCEPT
                          !.delivered = @ \cup {active_connections[broadcasting.index + 1]},
                          !.index = @ + 1]
    /\ UNCHANGED <<active_connections, ws_pc, coreVars>>

\* line 57: the iterator is at or past the end of the list, broadcast returns
broadcast_return ==
    /\ broadcasting.running
    /\ broadcasting.index >= Len(active_connections)
    /\ broadcasting' = [broadcasting EXCEPT !.running = FALSE]
    /\ UNCHANGED <<active_connections, ws_pc, coreVars>>

LiveNext ==
    \/ \E w \in Sockets : connect(w)
    \/ \E w \in Sockets : disconnect(w)
    \/ broadcast
    \/ send_text
    \/ broadcast_return

LiveSpec == Init /\ [][LiveNext]_vars

\* ================================================================ claims
\* a step of the monitoring loop (the API handlers leave its position alone)
LoopStep == <<pc, idx, cycle>>' # <<pc, idx, cycle>>

\* the step that ends the processing of the current service
Ends == pc \in {"create_check", "count_incidents", "update_status"} /\ idx' # idx

\* the clock reading of iteration c (iteration cycle + 1 is about to start when
\* the loop is at check_all_services)
ClockOf(c) ==
    AtMinutes((Minutes(now) + c) - (cycle + IF pc = "check_all_services" THEN 1 ELSE 0))

\* the check rows of service s written in cycle c
RowsOf(s, c) ==
    {k \in 1..Len(checks) : checks[k].service = s /\ checks[k].timestamp = ClockOf(c)}

\* s is in the list the cycle read, with a configured endpoint
Listed(s) == \E i \in 1..Len(snap) : snap[i].id = s /\ ~Falsy(snap[i].endpoint)

StatusChanged(s) == s \in Live /\ s \in Live' /\ services'[s].status # services[s].status

\* C1 as stated: when check_all_services returns, every service it listed with
\* a configured endpoint has exactly one check row of this cycle.
C1_ExactlyOneCheckPerCycle ==
    pc = "calculate_metrics" =>
        \A s \in Live : Listed(s) => Cardinality(RowsOf(s, cycle)) = 1

\* C1 amended: no service ever has two check rows of one cycle, and when
\* check_all_services returns every listed service with a configured endpoint
\* has exactly one row of this cycle, except that it has none when its check
\* write raised; the probe outcome makes no difference.
C1_OneCheckUnlessWriteFails ==
    /\ \A s \in Ids, c \in 0..cycle : Cardinality(RowsOf(s, c)) <= 1
    /\ pc = "calculate_metrics" =>
         \A s \in Live : Listed(s) =>
            Cardinality(RowsOf(s, cycle)) = IF errors[s] = "create" THEN 0 ELSE 1

\* two services checked in the second cycle, one of them by a probe that got
\* no response: it has its 'down' row
C1_Witness ==
    /\ pc = "calculate_metrics"
    /\ cycle = 2
    /\ \A s \in Ids : s \in Live /\ Listed(s) /\ Cardinality(RowsOf(s, 2)) = 1
    /\ \E k \in 1..Len(checks) :
          checks[k] = [service |-> 1, status |-> "down", responseTime |-> NoRt,
                       timestamp |-> DateTime(32, 12, 1)]

\* C2: a check row is only ever created for the service being processed, whose
\* endpoint was configured (neither null nor empty) in the list the cycle read,
\* and the loop changes the status of no other service.
C2_NoCheckWithoutEndpoint ==
    [][/\ Len(checks') > Len(checks) =>
            /\ pc = "create_check"
            /\ checks' = Append(checks, checks'[Len(checks')])
            /\ checks'[Len(checks')].service = Cur.id
            /\ ~Falsy(Cur.endpoint)
       /\ LoopStep =>
            \A s \in Ids : StatusChanged(s) => s = Cur.id /\ ~Falsy(Cur.endpoint)
      ]_vars

\* a cycle has run over a service with an empty endpoint and one with a
\* configured endpoint: only the latter has a row
C2_Witness ==
    /\ pc = "calculate_metrics"
    /\ \E s, u \in Live :
          /\ \E i \in 1..Len(snap) : snap[i].id = s /\ snap[i].endpoint = ""
          /\ \A k \in 1..Len(checks) : checks[k].service # s
          /\ Listed(u)
          /\ RowsOf(u, cycle) # {}

\* the service of snap[i] was processed in this cycle by a probe with outcome
\* `st` ("up"/"down"), without an exception, and its row is still there
Processed(i, st) ==
    /\ i \in 1..Len(snap)
    /\ snap[i].id \in Live
    /\ errors[snap[i].id] = "none"
    /\ \E k \in RowsOf(snap[i].id, cycle) : checks[k].status = st

C4_DownNoOp ==
    [][LoopStep /\ pc \in {"create_check", "count_incidents", "update_status"}
            /\ ~probe.up /\ Cur.status # "operational"
          => /\ pc = "create_check"
             /\ pc' \notin {"update_status", "count_incidents"}
             /\ services' = services]_vars

\* a service read as major_outage was probed down and is still major_outage
C4_Witness ==
    /\ pc = "calculate_metrics"
    /\ \E i \in 1..Len(snap) :
          /\ Processed(i, "down")
          /\ snap[i].status = "major_outage"
          /\ services[snap[i].id].status = "major_outage"

C6_IncidentSuppression ==
    [][LoopStep /\ probe.up /\ Cur.status # "operational"
            /\ \/ pc = "create_check"
               \/ pc = "count_incidents" /\ ActiveIncidents(Cur.id) >= 1
          => /\ pc' # "update_status"
             /\ services' = services]_vars

\* a service read as not operational, referenced by an active incident, was
\* probed up and keeps its status
C6_Witness ==
    /\ pc = "calculate_metrics"
    /\ \E i \in 1..Len(snap) :
          /\ Processed(i, "up")
          /\ snap[i].status # "operational"
          /\ ActiveIncidents(snap[i].id) >= 1
          /\ services[snap[i].id].status = snap[i].status

\* C7 as stated: whenever the loop changes the status of a service that no
\* request has changed since the cycle read it, the change is
\* operational -> partial_outage or partial_outage -> operational.
C7_OnlyOperationalAndPartialOutage ==
    [][LoopStep =>
         \A s \in Ids :
            StatusChanged(s) /\ services[s].status = Cur.status =>
               <<services[s].status, services'[s].status>> \in
                  {<<"operational", "partial_outage">>, <<"partial_outage", "operational">>}
      ]_vars

\* C8: the data of every status write the loop issues, and every status value a
\* step of the loop stores, is operational or partial_outage.
C8_NeverBeyondPartialOutage ==
    [][/\ pc = "update_status" => new_status \in {"operational", "partial_outage"}
       /\ LoopStep =>
            \A s \in Ids : StatusChanged(s) =>
               services'[s].status \in {"operational", "partial_outage"}
      ]_vars

\* the loop has written both values to a service: partial_outage in an earlier
\* cycle (its down row), operational in this one
C8_Witness ==
    /\ pc = "calculate_metrics"
    /\ cycle >= 2
    /\ \E i \in 1..Len(snap) :
          /\ Processed(i, "up")
          /\ snap[i].status = "partial_outage"
          /\ services[snap[i].id].status = "operational"
          /\ \E k \in RowsOf(snap[i].id, cycle - 1) : checks[k].status = "down"

\* C9 as stated: the loop changes the status of a service only when no active
\* incident references that service.
C9_ChangesOnlyWithoutActiveIncident ==
    [][LoopStep => \A s \in Ids : StatusChanged(s) => ActiveIncidents(s) = 0]_vars

Returns(p) ==
    /\ pc \in {"period_find_services", "period_find_checks", "period_write_metric"}
    /\ Head(due).period = p
    /\ due' = Tail(due)
    /\ caught' = "none"

\* the second call of calculate_metrics is about to start the rollup of kind p,
\* its rollups before p have returned, and the first call ran all its rollups,
\* p being the last, on the window that ends today
SecondRunBefore(p) ==
    /\ cycle = 2
    /\ pc = "period_find_services"
    /\ Head(due).period = p
    /\ done[p].ran
    /\ done[p].end = Midnight(now)

\* C11: in every reachable state no two UptimeMetric rows have the same
\* (service, period kind, start, end), and no two rows have the same id.
C11_OneMetricPerKey ==
    \A a, b \in metrics :
        \/ a = b
        \/ /\ a.id # b.id
           /\ ~SameKey(a, b.service, b.period, b.startDate, b.endDate)

\* the daily rollup has returned twice for the window that ends today and
\* service 1 has its one daily row
C11_Witness ==
    /\ SecondRunBefore("weekly")
    /\ done["daily"].ran
    /\ Cardinality({m \in metrics :
          SameKey(m, 1, "daily", MinusDays(Midnight(now), 1), Midnight(now))}) = 1

\* C12: when a rollup returns and the last rollup of the same kind that
\* returned had the same window and the UptimeCheck rows are as they were then,
\* the metric rows of the window are the rows it left (same rows, same uptime,
\* avgResponseTime, checksCount and downtimeMinutes), one for every listed
\* service with checks in the window and none for the others.
C12_Idempotent ==
    [][\A p \in PeriodKinds :
          Returns(p) /\ done[p].ran /\ done[p].checks = checks
              /\ done[p].start = done'[p].start /\ done[p].end = done'[p].end
          => /\ done'[p].rows = done[p].rows
             /\ done'[p].rows = WindowRows(metrics', p, done[p].start, done[p].end)
             /\ \A s \in Ids :
                   Cardinality({m \in done'[p].rows : m.service = s}) =
                      IF /\ s \in FindServices
                         /\ FindChecks(s, done[p].start, done[p].end) # << >>
                      THEN 1 ELSE 0
      ]_vars

\* the weekly rollup has returned twice for the same window with the check
\* rows unchanged, and the weekly row of service 1 counts two checks
C12_Witness ==
    /\ SecondRunBefore("monthly")
    /\ done["monthly"].checks = checks
    /\ done["weekly"].checks = checks
    /\ \E m \in metrics :
          /\ SameKey(m, 1, "weekly", MinusDays(Midnight(now), 7), Midnight(now))
          /\ m.checksCount = 2

\* the check rows of the service of metric row m that lie in its window:
\* start <= timestamp < end
WindowOf(m) ==
    {k \in 1..Len(checks) :
        /\ checks[k].service = m.service
        /\ ~Before(checks[k].timestamp, m.startDate)
        /\ Before(checks[k].timestamp, m.endDate)}
UpOf(m) == {k \in WindowOf(m) : checks[k].status = "up"}
TimedOf(m) == {k \in WindowOf(m) : checks[k].responseTime # NoRt}

\* sum of the response times of the check rows with index in S
RECURSIVE RtSum(_)
RtSum(S) ==
    IF S = {} THEN 0
    ELSE LET k == CHOOSE x \in S : TRUE
         IN  checks[k].responseTime[1] + RtSum(S \ {k})

\* the length of the window of m in days
WindowDays(m) == m.endDate.day - m.startDate.day

\* C13: every metric row has checksCount = N >= 1 and uptime = 100*U/N (as a
\* fraction: uptime * N = 100 * U), N the number of check rows of its service
\* with start <= timestamp < end and U the number of those that are up.
C13_CountAndUptime ==
    \A m \in metrics :
        LET N == Cardinality(WindowOf(m))
            U == Cardinality(UpOf(m))
        IN  /\ N >= 1
            /\ m.checksCount = N
            /\ m.uptime[1] * N = 100 * U * m.uptime[2]

\* service 1 has an up check at the start of yesterday's window and a down
\* check at its end: the daily row counts the first only, 100 % up
C13_Witness ==
    \E m \in metrics :
        /\ m.service = 1 /\ m.period = "daily"
        /\ \E k \in 1..Len(checks) :
              /\ checks[k].service = 1
              /\ checks[k].timestamp = m.startDate
              /\ checks[k].status = "up"
        /\ \E k \in 1..Len(checks) :
              /\ checks[k].service = 1
              /\ checks[k].timestamp = m.endDate
              /\ checks[k].status = "down"
        /\ m.checksCount = 1
        /\ m.uptime = <<100, 1>>

\* C14: avgResponseTime of every metric row is null exactly when no check of
\* its window has a response time, and else the floor of the sum of the
\* response times over their number, taken over the checks of the window with
\* a response time, up or down.
C14_AvgResponseTime ==
    \A m \in metrics :
        LET n == Cardinality(TimedOf(m))
        IN  IF n = 0
            THEN m.avgResponseTime = NoRt
            ELSE /\ m.avgResponseTime # NoRt
                 /\ m.avgResponseTime[1] * n <= RtSum(TimedOf(m))
                 /\ RtSum(TimedOf(m)) < (m.avgResponseTime[1] + 1) * n

\* ten checks in the window, 8 of them with response times that sum to 865:
\* the average is 108
C14_Witness ==
    \E m \in metrics :
        /\ Cardinality(WindowOf(m)) = 10
        /\ Cardinality(TimedOf(m)) = 8
        /\ RtSum(TimedOf(m)) = 865
        /\ m.avgResponseTime = <<108>>

\* C15 as stated: downtimeMinutes of every metric row is
\* floor((N - U) * (windowDays * 24 * 60) / N).
C15_DowntimeFloor ==
    \A m \in metrics :
        LET N == Cardinality(WindowOf(m))
            U == Cardinality(UpOf(m))
        IN  m.downtimeMinutes = ((N - U) * (WindowDays(m) * 24 * 60)) \div N

\* C16: when the fetch of a service's checks finds none in the window, the step
\* changes no UptimeMetric row, logs no error, and the rollup goes on with the
\* next listed service (or returns after the last one).
C16_ZeroChecksSkipped ==
    [][pc = "period_find_checks" /\ pc' # pc
            /\ FindChecks(CurM, rollup.start_date, rollup.end_date) = << >>
            /\ caught' = "none"
          => /\ metrics' = metrics
             /\ IF rollup.idx < Len(rollup.services)
                THEN /\ pc' = "period_find_checks"
                     /\ rollup'.idx = rollup.idx + 1
                     /\ rollup'.services = rollup.services
                ELSE Returns(rollup.period)
      ]_vars

\* a rollup has run over two listed services: service 2 has no check at all and
\* got no row, service 1 got its daily row, nothing was logged
C16_Witness ==
    /\ pc = "sleep"
    /\ cycle = 1
    /\ caught = "none"
    /\ done["daily"].ran
    /\ 2 \in FindServices
    /\ \A k \in 1..Len(checks) : checks[k].service # 2
    /\ \A m \in metrics : m.service # 2
    /\ \E m \in metrics : m.service = 1 /\ m.period = "daily"

\* C20 as stated: when a store call of a rollup (check fetch, metric lookup,
\* update or create) raises for one service, the rollup goes on with the next
\* listed service, and the rollups of the other period kinds that are due in
\* this call of calculate_metrics still run.
C20_AggregationIsolation ==
    [][caught' # "none"
            /\ pc \in {"period_find_checks", "period_find_metric", "period_write_metric"}
          => /\ (rollup.idx < Len(rollup.services) => pc' = "period_find_checks")
             /\ (Len(due) > 1 => pc' = "period_find_services")
      ]_vars

\* ------------------------------------------------------ prober (ProbeSpec)
\* C17: check_endpoint never raises, and when a call has returned it has sent
\* exactly one request and its tuple is (true, t) iff a response with status
\* below 400 came after t ms, (false, t) iff a response with status 400 or
\* above came, and (false, null) iff the request failed without a response.
C17_ProberTotal ==
    /\ pc # "probe_raised"
    /\ pc = "probe_idle" /\ requests > 0 =>
          /\ requests = 1
          /\ (probe.up /\ probe.rt = <<net.ms>>)
                <=> (net.kind = "response" /\ net.status < 400)
          /\ (~probe.up /\ probe.rt = <<net.ms>>)
                <=> (net.kind = "response" /\ net.status >= 400)
          /\ (~probe.up /\ probe.rt = NoRt) <=> net.kind \in Failures

\* a call whose request timed out has returned (false, null)
C17_Witness ==
    /\ pc = "probe_idle"
    /\ requests = 1
    /\ net.kind = "timeout"
    /\ probe = [up |-> FALSE, rt |-> NoRt]

\* ------------------------------------------------- check recorder (Spec)
\* C18: the row a cycle appends to UptimeCheck has status 'up' if the probe's
\* isUp is true and 'down' otherwise, and the probe's response time; a probe
\* without a response (null response time) is stored as down with a null
\* responseTime.
C18_RowCarriesProbe ==
    [][Len(checks') > Len(checks) =>
          LET row == checks'[Len(checks')]
          IN  /\ row.status = (IF probe.up THEN "up" ELSE "down")
              /\ row.responseTime = probe.rt
              /\ (probe.rt = NoRt => row.status = "down" /\ row.responseTime = NoRt)
      ]_vars

\* the three kinds of probe result are stored: up with a response time, down
\* with a response time, down without one
C18_Witness ==
    /\ \E k \in 1..Len(checks) :
          checks[k].status = "down" /\ checks[k].responseTime = NoRt
    /\ \E k \in 1..Len(checks) :
          checks[k].status = "down" /\ checks[k].responseTime # NoRt
    /\ \E k \in 1..Len(checks) :
          checks[k].status = "up" /\ checks[k].responseTime # NoRt

\* C19: when recording the check, counting the incidents or updating the status
\* raises for a service, the step writes nothing, no further store call is made
\* for that service in this cycle, and the loop goes on with the next listed
\* service that has an endpoint (the cycle ends only after the last one); when
\* check_all_services returns, every listed service with an endpoint whose own
\* calls did not raise has the check row of this cycle.
C19_CheckIsolation ==
    /\ [](pc = "calculate_metrics" =>
             \A s \in Live :
                Listed(s) /\ errors[s] = "none" => RowsOf(s, cycle) # {})
    /\ [][errors' # errors
              /\ pc \in {"create_check", "count_incidents", "update_status"}
            => /\ dbVars' = dbVars
               /\ idx' > idx
               /\ \A i \in (idx + 1)..(idx' - 1) :
                     i <= Len(snap) => Falsy(snap[i].endpoint)
               /\ IF idx' <= Len(snap)
                  THEN pc' = "check_endpoint" /\ ~Falsy(snap[idx'].endpoint)
                  ELSE pc' = "calculate_metrics" /\ idx' = Len(snap) + 1
               /\ snap' = snap
        ]_vars

\* the store raised for the first listed service; the second, read as
\* operational, was probed down, recorded and set to partial_outage
C19_Witness ==
    /\ pc = "calculate_metrics"
    /\ Len(snap) = 2
    /\ snap[1].id \in Live
    /\ ~Falsy(snap[1].endpoint)
    /\ errors[snap[1].id] # "none"
    /\ Processed(2, "down")
    /\ snap[2].status = "operational"
    /\ services[snap[2].id].status = "partial_outage"

\* ------------------------------------------------- scheduler (LoopSpec)
\* the positions of start_monitoring: its calls and its sleep
LoopPositions ==
    {"check_all_services", "check_endpoint", "create_check", "count_incidents",
     "update_status", "calculate_metrics", "period_find_services",
     "period_find_checks", "period_find_metric", "period_write_metric", "sleep"}

\* C21: the loop is always at one of its calls or at its sleep (no exception
\* ends it); an exception that reaches the loop level (from the service list
\* read or from a store call of a rollup) takes it to the sleep; the sleep is
\* followed by the start of the next iteration; and every iteration that has
\* started, whatever raises in it, is followed by the start of the next one
\* (up to the last iteration of the model).
C21_SelfHealing ==
    /\ [](pc \in LoopPositions)
    /\ [][caught' # "none" /\ pc' # pc /\ pc # "sleep" => pc' = "sleep"]_vars
    /\ (pc = "sleep") ~> (pc = "check_all_services")
    /\ \A k \in 1..(MaxCycles - 1) : (cycle = k) ~> (cycle = k + 1)

\* the third iteration runs at 00:01 after a midnight iteration that failed:
\* service 1 has its check rows of 23:59 and 00:00, so the daily rollup was due
\* and had a row to write, and there is no metric row
C21_Witness ==
    /\ cycle = 3
    /\ pc = "check_endpoint"
    /\ now = DateTime(31, 0, 1)
    /\ \E k \in 1..Len(checks) :
          checks[k].service = 1 /\ checks[k].timestamp = DateTime(30, 23, 59)
    /\ \E k \in 1..Len(checks) :
          checks[k].service = 1 /\ checks[k].timestamp = DateTime(31, 0, 0)
    /\ metrics = {}

\* C22 as stated: the boundary check is entered only from check_all_services,
\* the sleep only from the boundary check (or a rollup it runs), and
\* check_all_services only from the sleep: no iteration goes to its sleep
\* without having invoked the boundary check.
C22_ThreeStepsInOrder ==
    [][pc' # pc =>
          /\ pc' = "calculate_metrics" =>
                pc \in {"check_all_services", "create_check", "count_incidents",
                        "update_status"}
          /\ pc' = "sleep" =>
                pc \in {"calculate_metrics", "period_find_services",
                        "period_find_checks", "period_find_metric",
                        "period_write_metric"}
          /\ pc' = "check_all_services" => pc = "sleep"
      ]_vars

\* ----------------------------------------------------- collaborators (Spec)
\* C23 as stated: a step of the monitoring loop that changes the status of a
\* service issues notify(serviceId, oldStatus, newStatus) and a broadcast
\* about that service.
C23_TransitionsNotify ==
    [][LoopStep =>
          \A s \in Ids :
             StatusChanged(s) =>
                /\ Notify(s, services[s].status, services'[s].status) \in sent'
                /\ \E m \in sent' : m.kind = "broadcast" /\ m.id = s
      ]_vars

\* ------------------------------------------------ check rows (LoopSpec)
\* C24: every step of the monitoring loop, of a rollup and of an uptime read
\* endpoint leaves every existing UptimeCheck row as it is (none is changed,
\* none is removed): the rows of a service only grow.
C24_ChecksImmutable ==
    [][/\ Len(checks') >= Len(checks)
       /\ \A k \in 1..Len(checks) : checks'[k] = checks[k]
      ]_vars

\* three iterations have each recorded a check of service 1, the rollups of
\* midnight have read them and written metric rows, two read requests were
\* served: the row of 23:59 is still the first row
C24_Witness ==
    /\ Len(checks) = 3
    /\ checks[1].service = 1
    /\ checks[1].timestamp = DateTime(30, 23, 59)
    /\ checks[3].timestamp = DateTime(31, 0, 1)
    /\ Cardinality(metrics) = 3
    /\ apiOps = 2

\* ---------------------------------------------------- status values (Spec)
\* C25 as stated: in every reachable state the status of every service is one
\* of operational, degraded, partial_outage, major_outage, maintenance.
C25_StatusInEnum ==
    \A s \in Live :
        services[s].status \in
            {"operational", "degraded", "partial_outage", "major_outage", "maintenance"}

\* ------------------------------------------------- interleavings (Spec)
\* the status write of the loop is issued in this step (it does not raise) and
\* finds the row of the service
Writes == pc = "update_status" /\ pc' # pc /\ errors' = errors /\ Cur.id \in Live

\* C26 as stated: whenever the loop writes operational to a service, no active
\* incident references that service at that moment.
C26_NoOperationalOverActiveIncident ==
    [][Writes /\ new_status = "operational" => ActiveIncidents(Cur.id) = 0]_vars

\* C27: while a service is processed the status the cycle read for it is not
\* read again (no step, of the loop or of a request, changes the list the
\* cycle read); the branch the loop takes after recording the check depends
\* on the probe and on that read status only; and the write stores its value
\* whatever the stored status is by then, so that an edit made since the read
\* is overwritten.
C27_LastWriteWins ==
    [][/\ pc \in {"check_endpoint", "create_check", "count_incidents", "update_status"}
            => snap' = snap
       /\ pc = "create_check" /\ pc' # pc /\ errors' = errors =>
            /\ pc' = "update_status" <=> (~probe.up /\ Cur.status = "operational")
            /\ pc' = "update_status" => new_status' = "partial_outage"
            /\ pc' = "count_incidents" <=> (probe.up /\ Cur.status # "operational")
       /\ pc = "count_incidents" /\ pc' = "update_status" => new_status' = "operational"
       /\ Writes => services'[Cur.id].status = new_status
      ]_vars

\* the cycle read service 1 as operational and probed it down; a request has
\* since set it to maintenance; the write of partial_outage is about to be
\* issued
C27_Witness ==
    /\ pc = "update_status"
    /\ Cur.id \in Live
    /\ Cur.status = "operational"
    /\ new_status = "partial_outage"
    /\ services[Cur.id].status = "maintenance"

\* --------------------------------------------- order in a service (Spec)
\* C28: the loop comes to the incident count or to the status write of a
\* service only by the step that has appended the check row of that service;
\* a step of the loop that changes the status of a service finds a check row
\* of that service written in this cycle; and when the check write raises, the
\* step changes no status and the processing of the service ends without a
\* count or a write.
C28_CheckBeforeReconcile ==
    [][/\ pc' \in {"count_incidents", "update_status"}
            /\ pc \notin {"count_incidents", "update_status"}
          => /\ pc = "create_check"
             /\ Len(checks') = Len(checks) + 1
             /\ checks'[Len(checks')].service = Cur.id
             /\ checks'[Len(checks')].timestamp = now
       /\ pc = "count_incidents" /\ pc' = "update_status" =>
             Cur.id \notin Live \/ RowsOf(Cur.id, cycle) # {}
       /\ LoopStep => \A s \in Ids : StatusChanged(s) => RowsOf(s, cycle) # {}
       /\ pc = "create_check" /\ errors'[Cur.id] = "create" =>
             /\ services' = services
             /\ idx' > idx
             /\ pc' \in {"check_endpoint", "calculate_metrics"}
      ]_vars

\* in the second cycle the check write of the first listed service raised: it
\* has no row of this cycle and keeps its status; the second, read as
\* partial_outage, was probed up, recorded and set to operational
C28_Witness ==
    /\ pc = "calculate_metrics"
    /\ cycle = 2
    /\ Len(snap) = 2
    /\ snap[1].id \in Live
    /\ errors[snap[1].id] = "create"
    /\ RowsOf(snap[1].id, 2) = {}
    /\ services[snap[1].id].status = snap[1].status
    /\ Processed(2, "up")
    /\ snap[2].status = "partial_outage"
    /\ services[snap[2].id].status = "operational"

\* ------------------------------------------------ rollup gating (LoopSpec)
\* the first days of the months from August 2024 to March 2025
FirstDays == {0, 31, 61, 92, 122, 153, 184, 212}

\* the rollups C29 calls for at clock reading t: day 3 (2024-08-04) is a Sunday
Calls(t) ==
    IF t.hour = 0 /\ t.minute = 0
    THEN {"daily"} \cup (IF t.day % 7 = 3 THEN {"weekly"} ELSE {})
                   \cup (IF t.day \in FirstDays THEN {"monthly"} ELSE {})
    ELSE {}

\* in the step that ends the iteration's work: the rollup of kind p has run in
\* this iteration (it has returned, or it is the one that raises now)
HasRun(p) ==
    \/ done'[p].ran /\ done'[p].end = Midnight(now)
    \/ /\ pc \in {"period_find_services", "period_find_checks",
                   "period_find_metric", "period_write_metric"}
       /\ Head(due).period = p

\* C29 as stated: a rollup starts only when the clock of the iteration calls
\* for it (daily at hour 0, minute 0; weekly at that time of a Sunday; monthly
\* at that time of a first of the month), metric rows are created or changed
\* only by such a rollup, and an iteration goes to its sleep only when every
\* rollup its clock calls for has run.
C29_RollupGating ==
    [][/\ pc' = "period_find_services" /\ (pc' # pc \/ due' # due)
            => Head(due').period \in Calls(now)
       /\ metrics' # metrics =>
            pc = "period_write_metric" /\ rollup.period \in Calls(now)
       /\ pc' = "sleep" /\ pc # "sleep" => \A p \in Calls(now) : HasRun(p)
      ]_vars

\* ----------------------------------------------- rollup windows (LoopSpec)
\* start and end (midnights, as days) make the window of a rollup of kind p:
\* one day, seven days, or from the first of a month to the first of the next
IsWindow(p, start, end) ==
    /\ start.hour = 0 /\ start.minute = 0
    /\ end.hour = 0 /\ end.minute = 0
    /\ p = "daily" => start.day + 1 = end.day
    /\ p = "weekly" => start.day + 7 = end.day
    /\ p = "monthly" =>
          /\ start.day \in FirstDays
          /\ end.day \in FirstDays
          /\ start.day < end.day
          /\ \A d \in FirstDays : ~(start.day < d /\ d < end.day)

\* C30: the window of a running rollup ends at the midnight of the day of the
\* clock reading and is the window of its kind, its number of days is the
\* length of the window (for a monthly rollup the days of the previous month,
\* 28 to 31), every metric row carries such a window, and its count is the
\* number of checks of its service with start <= timestamp < end.
C30_RollupWindows ==
    /\ pc \in {"period_find_checks", "period_find_metric", "period_write_metric"} =>
          /\ rollup.end_date = [day |-> now.day, hour |-> 0, minute |-> 0]
          /\ IsWindow(rollup.period, rollup.start_date, rollup.end_date)
          /\ rollup.days = rollup.end_date.day - rollup.start_date.day
          /\ rollup.period = "monthly" => rollup.days \in 28..31
    /\ \A m \in metrics :
          /\ IsWindow(m.period, m.startDate, m.endDate)
          /\ m.checksCount = Cardinality(WindowOf(m))

\* after the midnight of Saturday 2025-03-01: the monthly row of service 1 has
\* the window of February (28 days), the daily row that of the day before, and
\* both count the check of 23:59 and not the check of 00:00
C30_Witness ==
    /\ \E m \in metrics :
          /\ m.service = 1 /\ m.period = "monthly"
          /\ m.startDate = DateTime(184, 0, 0) /\ m.endDate = DateTime(212, 0, 0)
          /\ m.checksCount = 1
    /\ \E m \in metrics :
          /\ m.service = 1 /\ m.period = "daily"
          /\ m.startDate = DateTime(211, 0, 0) /\ m.endDate = DateTime(212, 0, 0)
          /\ m.checksCount = 1
    /\ \E k \in 1..Len(checks) :
          checks[k].service = 1 /\ checks[k].timestamp = DateTime(211, 23, 59)
    /\ \E k \in 1..Len(checks) :
          checks[k].service = 1 /\ checks[k].timestamp = DateTime(212, 0, 0)

\* ------------------------------------------ once per boundary (DriftSpec)
\* C31: no two iterations call the rollup of the same period kind for the same
\* window: the calls of one kind with one window end were all made in one
\* iteration, and a rollup runs only while the clock reading of its iteration
\* is inside the gate (hour 0, minute below check_interval / 60).
C31_OncePerBoundary ==
    /\ \A a, b \in ran :
          a.period = b.period /\ a.end_date = b.end_date => a.cycle = b.cycle
    /\ pc \in {"period_find_services", "period_find_checks", "period_find_metric",
               "period_write_metric"} => now.hour = 0 /\ now.minute = 0

\* the iteration of 00:00 of Sunday 2024-09-01 has run the three rollups and
\* written their rows; the next iteration, at 00:01, has passed the boundary
\* check without a further call
C31_Witness ==
    /\ cycle = 3
    /\ pc = "sleep"
    /\ now = DateTime(31, 0, 1)
    /\ ran = {[cycle |-> 2, period |-> p, end_date |-> DateTime(31, 0, 0)] : p \in PeriodKinds}
    /\ Cardinality(metrics) = 3

\* ------------------------------------------------ no catch-up (DriftSpec)
\* the gate window after the midnight of the day of t
InGate(t) == t.hour = 0 /\ t.minute < check_interval \div 60

\* C32: a rollup is called, and a metric row is created or changed, only in an
\* iteration whose clock reading is inside the gate window, and only for the
\* window that ends at the midnight of that reading; so a metric row exists
\* only for a window whose rollup was called, and a midnight whose gate window
\* no iteration has read gets no rollup and no row from any later iteration.
C32_NoCatchUp ==
    /\ [][ran' # ran =>
             /\ InGate(now)
             /\ \A r \in ran' \ ran : r.end_date = Midnight(now) /\ r.cycle = cycle]_vars
    /\ [][metrics' # metrics =>
             /\ InGate(now)
             /\ \A m \in metrics' \ metrics : m.endDate = Midnight(now)]_vars
    /\ [](\A m \in metrics :
             \E r \in ran : r.period = m.period /\ r.end_date = m.endDate)

\* the iteration after 23:59 of Saturday 2024-08-31 woke up late, at 00:01: the
\* third iteration, at 00:02, has passed the boundary check; service 1 has its
\* check of 23:59, and no rollup was called and no metric row exists
C32_Witness ==
    /\ cycle = 3
    /\ pc = "sleep"
    /\ now = DateTime(31, 0, 2)
    /\ caught = "none"
    /\ \E k \in 1..Len(checks) :
          checks[k].service = 1 /\ checks[k].timestamp = DateTime(30, 23, 59)
    /\ \E k \in 1..Len(checks) :
          checks[k].service = 1 /\ checks[k].timestamp = DateTime(31, 0, 1)
    /\ ran = {}
    /\ metrics = {}

\* ----------------------------------------------- live channel (LiveSpec)
\* C33 as stated: no step changes the active-connections list while a
\* broadcast is iterating it, and when a broadcast has returned it has sent the
\* message to every client that was in the list from its start to its end.
C33_BroadcastExclusive ==
    /\ [][broadcasting.running => active_connections' = active_connections]_vars
    /\ [](~broadcasting.running => broadcasting.stayed \subseteq broadcasting.delivered)

\* ----------------------------------------------------- one cycle (Spec)
\* the positions of check_all_services at which a service is being processed
ServicePositions == {"check_endpoint", "create_check", "count_incidents", "update_status"}

\* C34: an iteration starts only from the start of the loop body, with nothing
\* of the previous iteration pending (no probe result, no status write) and,
\* after the first, only by the end of the sleep, which moves the clock on by
\* at least check_interval; the clock reading changes at no other step; and
\* within an iteration one service is processed at a time, in the order of the
\* list: a probe is issued only when no result or write of another service is
\* pending, the position in the list only moves forward, and a check row is
\* appended only for the service at that position.
C34_CyclesNeverOverlap ==
    [][/\ cycle' # cycle =>
             /\ cycle' = cycle + 1
             /\ pc = "check_all_services"
             /\ probe = NoProbe /\ new_status = Null
             /\ due = << >> /\ rollup = NoRollup
       /\ pc' = "check_all_services" /\ pc # "check_all_services" =>
             /\ pc = "sleep"
             /\ Minutes(now') >= Minutes(now) + check_interval \div 60
       /\ now' # now => pc = "sleep"
       /\ pc' = "check_endpoint" /\ pc' # pc => probe' = NoProbe /\ new_status' = Null
       /\ pc \in ServicePositions /\ pc' \in ServicePositions =>
             /\ idx' >= idx
             /\ idx' = idx \/ pc' = "check_endpoint"
             /\ snap' = snap
       /\ Len(checks') > Len(checks) =>
             /\ pc = "create_check"
             /\ checks' = Append(checks, checks'[Len(checks')])
             /\ checks'[Len(checks')].service = snap[idx].id
      ]_vars

\* the third iteration is processing the second of two listed services: the
\* first has its row of this iteration, the second has none yet, and both have
\* their rows of the two iterations before, a minute apart
C34_Witness ==
    /\ cycle = 3
    /\ pc = "create_check"
    /\ Len(snap) = 2
    /\ idx = 2
    /\ Cardinality(RowsOf(snap[1].id, 3)) = 1
    /\ RowsOf(snap[2].id, 3) = {}
    /\ \A s \in {snap[1].id, snap[2].id}, c \in {1, 2} : Cardinality(RowsOf(s, c)) = 1
    /\ now = DateTime(32, 12, 2)

\* -------------------------------------------- recovery (RecoverySpec)
\* an iteration is about to start, no further request will come, and service s
\* has an endpoint and no active incident
Settled(s) ==
    /\ pc = "check_all_services"
    /\ apiOps = MaxApiOps
    /\ s \in Live
    /\ ~Falsy(services[s].endpoint)
    /\ ActiveIncidents(s) = 0

\* check_all_services has ended (or failed to start), and for service s a store
\* call raised or the probe of this iteration was down
Disturbed(s) ==
    \/ errors[s] # "none"
    \/ caught = "service.find_many"
    \/ \E k \in 1..Len(checks) :
          checks[k].service = s /\ checks[k].timestamp = now /\ checks[k].status = "down"

\* C35: when an iteration starts with no request to come and no active
\* incident on a service with an endpoint, then by the end of that iteration's
\* check_all_services the service is operational, whatever its status was,
\* unless a store call raised or the probe was down; and the loop takes a
\* service out of operational only after a down probe, so the service stays
\* operational while its probes are up.
C35_RecoveryLiveness ==
    /\ \A k \in 0..(MaxCycles - 1) :
          (Settled(1) /\ cycle = k) ~>
              (/\ cycle = k + 1
               /\ pc \in {"calculate_metrics", "sleep"}
               /\ services[1].status = "operational" \/ Disturbed(1))
    /\ [][LoopStep =>
             \A s \in Ids :
                StatusChanged(s) /\ services[s].status = "operational" => ~probe.up]_vars

\* the service was left at the status of its resolved incident, a value outside
\* the enum; with no request left to come, the second iteration read that
\* status, probed the service up and set it to operational
C35_Witness ==
    /\ cycle = 2
    /\ pc = "calculate_metrics"
    /\ apiOps = MaxApiOps
    /\ snap[1].status = "investigating"
    /\ \E i \in DOMAIN incidents : incidents[i].status = "resolved" /\ 1 \in incidents[i].services
    /\ \E k \in 1..Len(checks) : checks[k].timestamp = now /\ checks[k].status = "up"
    /\ errors[1] = "none"
    /\ services[1].status = "operational"

\* ------------------------------------------------ rollup order (DriftSpec)
PeriodPositions ==
    {"period_find_services", "period_find_checks", "period_find_metric",
     "period_write_metric"}

\* the rollup of kind p was called in this iteration for the window that ends
\* at today's midnight
CalledNow(p) == [cycle |-> cycle, period |-> p, end_date |-> Midnight(now)] \in ran

\* ... and has returned
ReturnedNow(p) == CalledNow(p) /\ done[p].ran /\ done[p].end = Midnight(now)

\* C36: while a weekly or monthly rollup runs, the daily rollup of the same end
\* date was called in this iteration and has returned; while the monthly one
\* runs, so has the weekly one if today is a Sunday; while the daily or weekly
\* one runs, no later kind was called yet in this iteration; and no rollup
\* runs in an iteration after one of its rollups raised.
C36_RollupOrder ==
    pc \in PeriodPositions =>
        LET p == Head(due).period IN
        /\ p \in {"weekly", "monthly"} => ReturnedNow("daily")
        /\ p = "monthly" /\ Weekday(now) = 6 => ReturnedNow("weekly")
        /\ p = "daily" => ~CalledNow("weekly") /\ ~CalledNow("monthly")
        /\ p = "weekly" => ~CalledNow("monthly")
        /\ caught = "none"

\* Sunday 2024-09-01, 00:00: the monthly rollup is writing its row for service
\* 1; the daily and the weekly one have returned and left theirs
C36_Witness ==
    /\ pc = "period_write_metric"
    /\ rollup.period = "monthly"
    /\ now = DateTime(31, 0, 0)
    /\ ReturnedNow("daily")
    /\ ReturnedNow("weekly")
    /\ {m.period : m \in metrics} = {"daily", "weekly"}

\* ------------------------------------------------ metric ranges (AggSpec)
\* C37: every metric row has checksCount >= 1, an uptime between 0 and 100 (as
\* a fraction n/d: 0 <= n <= 100 * d) and downtimeMinutes between 0 and the
\* minutes of its window; downtimeMinutes is 0 when every check of the window
\* is up, and uptime is 0 when every check of the window is down.
C37_MetricRanges ==
    \A m \in metrics :
        /\ m.checksCount >= 1
        /\ m.uptime[2] >= 1
        /\ 0 <= m.uptime[1] /\ m.uptime[1] <= 100 * m.uptime[2]
        /\ 0 <= m.downtimeMinutes
        /\ m.downtimeMinutes <= WindowDays(m) * 24 * 60
        /\ UpOf(m) = WindowOf(m) => m.downtimeMinutes = 0
        /\ UpOf(m) = {} => m.uptime[1] = 0

\* two daily rows of one window: the checks of one service are all up (100 %,
\* no downtime), the checks of the other all down (0 %, the whole day down)
C37_Witness ==
    \E a, b \in metrics :
        /\ a.period = "daily" /\ b.period = "daily"
        /\ a.endDate = b.endDate
        /\ UpOf(a) = WindowOf(a)
        /\ a.uptime = <<100, 1>> /\ a.downtimeMinutes = 0
        /\ UpOf(b) = {}
        /\ b.uptime = <<0, 1>> /\ b.downtimeMinutes = 24 * 60

\* ------------------------------------------------- manual trigger (Spec)
\* the step serves POST /services/{id}/check for service s: it answers 400 or
\* hands a task to the background tasks
TriggerStep(s) ==
    \E m \in sent' : m.id = s /\ m.kind \in {"background_task", "http_error"}

\* C38: a step that serves the manual trigger leaves every UptimeCheck row,
\* every Service row, every incident and every metric row as they are and
\* does not move the monitoring loop; the one thing it starts is the prober,
\* check_endpoint on the endpoint of the service, and only for a service whose
\* endpoint is neither null nor empty: for such a service the request is
\* refused and nothing is started; and no service ever has two check rows of
\* one iteration.
C38_TriggerOnlyProbes ==
    /\ [][\A s \in Ids :
             TriggerStep(s) =>
                /\ checks' = checks
                /\ services' = services
                /\ incidents' = incidents
                /\ metrics' = metrics
                /\ <<pc, cycle, snap, idx, probe, new_status>>' =
                      <<pc, cycle, snap, idx, probe, new_status>>
                /\ s \in Live
                /\ IF services[s].endpoint \in {Null, ""}
                   THEN sent' = {HttpError("400", s)}
                   ELSE sent' = {BackgroundTask("check_endpoint", s, services[s].endpoint)}
          ]_vars
    /\ [](\A s \in Ids, c \in 0..cycle : Cardinality(RowsOf(s, c)) <= 1)

\* the trigger has just been served for service 1 while the second iteration
\* is processing it, after its check row of this iteration was written: the
\* prober was started and the service still has one row for each of the two
\* iterations
C38_Witness ==
    /\ cycle = 2
    /\ pc = "update_status"
    /\ Cur.id = 1
    /\ sent = {BackgroundTask("check_endpoint", 1, Url)}
    /\ Cardinality(RowsOf(1, 1)) = 1
    /\ Cardinality(RowsOf(1, 2)) = 1
    /\ Len(checks) = 2

\* ------------------------------------------------ rollup frame (AggSpec)
\* the key of a metric row
KeyOf(m) == <<m.service, m.period, m.startDate, m.endDate>>

\* C39: a step of a rollup leaves every UptimeCheck row, every Service row and
\* every incident as they are; it changes metric rows only at the write; a
\* write of a new row leaves the rows that exist as they are and adds one; and
\* an update in place leaves the number of rows, every other row, and the id
\* and key (service, period, startDate, endDate) of the updated row unchanged.
C39_RollupFrame ==
    [][(pc \in PeriodPositions) =>
          /\ checks' = checks
          /\ services' = services
          /\ incidents' = incidents
          /\ pc # "period_write_metric" => metrics' = metrics
          /\ pc = "period_write_metric" /\ pc' # pc /\ caught' = "none" =>
                IF rollup.existing_metric = 0
                THEN /\ metrics \subseteq metrics'
                     /\ Cardinality(metrics') = Cardinality(metrics) + 1
                ELSE /\ Cardinality(metrics') = Cardinality(metrics)
                     /\ \A m \in metrics :
                           \E n \in metrics' :
                              /\ n.id = m.id
                              /\ KeyOf(n) = KeyOf(m)
                              /\ m.id # rollup.existing_metric => n = m
      ]_vars

\* Monday 2024-09-02, 00:00: the daily rollup has run twice for the same
\* window, the second time updating the row of service 1 in place: there is
\* still one metric row and the check rows are there
C39_Witness ==
    /\ cycle = 2
    /\ pc = "sleep"
    /\ caught = "none"
    /\ now = DateTime(32, 0, 0)
    /\ \A c \in {1, 2} :
          [cycle |-> c, period |-> "daily", end_date |-> DateTime(32, 0, 0)] \in ran
    /\ Cardinality(metrics) = 1
    /\ \E m \in metrics : m.service = 1 /\ m.checksCount = Len(checks)

====
